---- MODULE Spec2Model ----
(***************************************************************************)
(* A model of zoog: the Ogg Opus header rewriter (HeaderRewriter::submit), *)
(* the header views and comment lists it works on, the comment and volume  *)
(* transforms, the volume analyzer, the escape codec and the two           *)
(* command-line tools (opuscomment, opusgain).  Spec drives one rewriter   *)
(* with arbitrary packets; Tools is a run of one of the tools, opusgain    *)
(* with one task per input file on a pool of worker threads.               *)
(* Packet payloads are byte sequences (naturals 0..255).                   *)
(***************************************************************************)
EXTENDS Integers, Sequences, FiniteSets, TLC

\* ------------------------------------------------------------------ bytes

\* opus_header.rs: OPUS_MIN_HEADER_SIZE
OPUS_MIN_HEADER_SIZE == 19

\* opus_header.rs: OPUS_MAGIC, the bytes of "OpusHead"
OPUS_MAGIC == <<79, 112, 117, 115, 72, 101, 97, 100>>

\* The bytes of "OpusTags", the magic of the comment header packet
COMMENT_MAGIC == <<79, 112, 117, 115, 84, 97, 103, 115>>

\* constants.rs: FIELD_NAME_TERMINATOR, the byte '='
FIELD_NAME_TERMINATOR == 61

\* Option<T>: <<>> is None, <<x>> is Some(x)
None == <<>>
Some(x) == <<x>>

\* iter().take(n)
Take(s, n) == SubSeq(s, 1, IF n < Len(s) THEN n ELSE Len(s))

\* Little-endian i16 as read by read_i16::<LittleEndian>
FromLE16(lo, hi) ==
    LET u == lo + 256 * hi IN IF u >= 32768 THEN u - 65536 ELSE u

\* Little-endian i16 as written by write_i16::<LittleEndian>
ToLE16(v) ==
    LET u == IF v < 0 THEN v + 65536 ELSE v IN <<u % 256, u \div 256>>

\* Little-endian u32 at position pos (1-based) of s
U32At(s, pos) ==
    s[pos] + 256 * s[pos + 1] + 65536 * s[pos + 2] + 16777216 * s[pos + 3]

\* Little-endian u32 encoding
EncU32(n) ==
    <<n % 256, (n \div 256) % 256, (n \div 65536) % 256, (n \div 16777216) % 256>>

\* i16 range test used by checked arithmetic on FixedPointGain
InI16(v) == v >= -32768 /\ v <= 32767

\* Position of the first occurrence of byte b in s, 0 when absent
IndexOf(s, b) ==
    LET I == {i \in 1..Len(s) : s[i] = b}
    IN IF I = {} THEN 0 ELSE CHOOSE i \in I : \A j \in I : i <= j

\* ------------------------------------------------------- Opus ID header

\* try_parse without the minimum-size test
OpusHeader_try_parse_no_size_check(data) ==
    IF Take(data, Len(OPUS_MAGIC)) # OPUS_MAGIC THEN None ELSE Some(data)

\* OpusHeader::try_parse: Ok(None) when too short or the magic differs,
\* otherwise a view over the same bytes.  Option of the byte buffer.
OpusHeader_try_parse(data) ==
    IF Len(data) < OPUS_MIN_HEADER_SIZE THEN None
    ELSE IF Take(data, Len(OPUS_MAGIC)) # OPUS_MAGIC THEN None
    ELSE Some(data)

\* OpusHeader::get_output_gain: bytes 16..18 (0-based) as LE i16
get_output_gain(data) == FromLE16(data[17], data[18])

\* OpusHeader::set_output_gain
set_output_gain(data, gain) ==
    [data EXCEPT ![17] = ToLE16(gain)[1], ![18] = ToLE16(gain)[2]]

\* FixedPointGain::checked_add: the sum of two Q7.8 gains, None when it
\* does not fit the i16 that holds a gain
checked_add(gain, adjustment) ==
    IF InI16(gain + adjustment) THEN Some(gain + adjustment) ELSE None

\* adjust_output_gain storing the sum as write_i16 would store it wrapped
adjust_output_gain_wrapping(data, adjustment) ==
    [ok |-> TRUE, data |-> set_output_gain(data, get_output_gain(data) + adjustment)]

\* OpusHeader::adjust_output_gain: checked add, GainOutOfBounds on overflow
adjust_output_gain(data, adjustment) ==
    LET gain == checked_add(get_output_gain(data), adjustment)
    IN IF gain # None
       THEN [ok |-> TRUE, data |-> set_output_gain(data, gain[1])]
       ELSE [ok |-> FALSE, err |-> "GainOutOfBounds", data |-> data]

\* OpusHeader::num_output_channels: byte 9 (0-based)
num_output_channels(data) == data[10]

\* impl PartialEq for OpusHeader: byte-wise equality of the buffers
OpusHeader_eq(a, b) == a = b

\* --------------------------------------------------------- comment lists
\* A comment list is a sequence of <<key, value>> pairs of byte sequences.

\* u8::to_ascii_lowercase
ToLower(b) == IF b >= 65 /\ b <= 90 THEN b + 32 ELSE b

\* DiscreteCommentList::keys_equal: str::eq_ignore_ascii_case
keys_equal(k1, k2) ==
    /\ Len(k1) = Len(k2)
    /\ \A i \in 1..Len(k1) : ToLower(k1[i]) = ToLower(k2[i])

\* validate_comment_field_name: non-empty, bytes 0x20..=0x7E except '='
validate_comment_field_name(key) ==
    /\ Len(key) > 0
    /\ \A i \in 1..Len(key) :
          key[i] >= 32 /\ key[i] <= 126 /\ key[i] # FIELD_NAME_TERMINATOR

\* get_first comparing the keys byte for byte
get_first_exact(list, key) ==
    LET I == {i \in 1..Len(list) : list[i][1] = key}
    IN IF I = {} THEN None
       ELSE Some(list[CHOOSE i \in I : \A j \in I : i <= j][2])

\* CommentList::get_first: Option of the value of the first matching entry
get_first(list, key) ==
    LET I == {i \in 1..Len(list) : keys_equal(list[i][1], key)}
    IN IF I = {} THEN None
       ELSE Some(list[CHOOSE i \in I : \A j \in I : i <= j][2])

\* remove_all comparing the keys byte by byte
remove_all_exact(list, key) ==
    LET Keep(e) == e[1] # key IN SelectSeq(list, Keep)

\* CommentList::remove_all
remove_all(list, key) ==
    LET Keep(e) == ~keys_equal(key, e[1]) IN SelectSeq(list, Keep)

\* CommentList::push: validates the key, then appends
push(list, key, value) ==
    IF validate_comment_field_name(key)
    THEN [ok |-> TRUE, list |-> Append(list, <<key, value>>)]
    ELSE [ok |-> FALSE, err |-> "InvalidCommentFieldName", list |-> list]

\* The retain_mut pass of replace: the first match gets the value, later
\* matches are dropped.  found is the closure's captured flag.
RECURSIVE ReplacePass(_, _, _, _)
ReplacePass(list, key, value, found) ==
    IF list = <<>> THEN <<>>
    ELSE LET e == Head(list) IN
         IF keys_equal(e[1], key)
         THEN IF found
              THEN ReplacePass(Tail(list), key, value, TRUE)
              ELSE <<(<<e[1], value>>)>> \o ReplacePass(Tail(list), key, value, TRUE)
         ELSE <<e>> \o ReplacePass(Tail(list), key, value, found)

\* replace dropping every match and putting the first one, with the new
\* value, at the end of the list
replace_moves_to_end(list, key, value) ==
    IF \E i \in 1..Len(list) : keys_equal(list[i][1], key)
    THEN [ok |-> TRUE,
          list |-> Append(remove_all(list, key),
                          <<list[CHOOSE i \in 1..Len(list) :
                                    /\ keys_equal(list[i][1], key)
                                    /\ \A j \in 1..(i - 1) : ~keys_equal(list[j][1], key)][1],
                            value>>)]
    ELSE push(list, key, value)

\* replace appending whatever the list holds
replace_appends(list, key, value) == push(list, key, value)

\* CommentList::replace
replace(list, key, value) ==
    IF \E i \in 1..Len(list) : keys_equal(list[i][1], key)
    THEN [ok |-> TRUE, list |-> ReplacePass(list, key, value, FALSE)]
    ELSE push(list, key, value)

\* CommentList::extend: push every entry in order, stop at the first error
RECURSIVE extend(_, _)
extend(list, items) ==
    IF items = <<>> THEN [ok |-> TRUE, list |-> list]
    ELSE LET r == push(list, Head(items)[1], Head(items)[2]) IN
         IF r.ok THEN extend(r.list, Tail(items)) ELSE r

\* ------------------------------------------------- comment header codec
\* The comment header packet: "OpusTags", vendor_len u32 LE, vendor,
\* list_len u32 LE, then per entry entry_len u32 LE and "KEY=VALUE";
\* bytes after the last entry are kept as the framing tail.

\* parse_comment: split "KEY=VALUE" at the first '=' and validate the key
parse_comment(entry) ==
    LET eq == IndexOf(entry, FIELD_NAME_TERMINATOR) IN
    IF eq = 0 THEN [ok |-> FALSE, err |-> "MissingCommentSeparator"]
    ELSE LET key == SubSeq(entry, 1, eq - 1)
             value == SubSeq(entry, eq + 1, Len(entry))
         IN IF validate_comment_field_name(key)
            THEN [ok |-> TRUE, key |-> key, value |-> value]
            ELSE [ok |-> FALSE, err |-> "InvalidCommentFieldName"]

\* The entries of a comment header: n length-prefixed entries from pos on
RECURSIVE ParseEntries(_, _, _)
ParseEntries(data, pos, n) ==
    IF n = 0 THEN [ok |-> TRUE, comments |-> <<>>, pos |-> pos]
    ELSE IF pos + 3 > Len(data) THEN [ok |-> FALSE]
    ELSE LET len == U32At(data, pos) IN
         IF pos + 3 + len > Len(data) THEN [ok |-> FALSE]
         ELSE LET kv == parse_comment(SubSeq(data, pos + 4, pos + 3 + len)) IN
              IF ~kv.ok THEN [ok |-> FALSE]
              ELSE LET rest == ParseEntries(data, pos + 4 + len, n - 1) IN
                   IF ~rest.ok THEN [ok |-> FALSE]
                   ELSE [ok |-> TRUE,
                         comments |-> <<(<<kv.key, kv.value>>)>> \o rest.comments,
                         pos |-> rest.pos]

\* CommentHeader::try_parse: Ok(None) on a magic mismatch, Err on a malformed
\* body, otherwise the parsed header [vendor, comments, tail]
CommentHeader_try_parse(data) ==
    LET m == Len(COMMENT_MAGIC) IN
    IF Len(data) < m \/ Take(data, m) # COMMENT_MAGIC THEN [kind |-> "None"]
    ELSE IF m + 4 > Len(data) THEN [kind |-> "Err", err |-> "MalformedCommentHeader"]
    ELSE LET vlen == U32At(data, m + 1)
             lpos == m + 5 + vlen
         IN IF lpos + 3 > Len(data)
            THEN [kind |-> "Err", err |-> "MalformedCommentHeader"]
            ELSE LET es == ParseEntries(data, lpos + 4, U32At(data, lpos)) IN
                 IF ~es.ok THEN [kind |-> "Err", err |-> "MalformedCommentHeader"]
                 ELSE [kind |-> "Some",
                       header |-> [vendor |-> SubSeq(data, m + 5, m + 4 + vlen),
                                   comments |-> es.comments,
                                   tail |-> SubSeq(data, es.pos, Len(data))]]

\* One serialized entry: entry_len, KEY, '=', VALUE
SerializeEntry(e) ==
    EncU32(Len(e[1]) + 1 + Len(e[2])) \o e[1] \o <<FIELD_NAME_TERMINATOR>> \o e[2]

RECURSIVE SerializeEntries(_)
SerializeEntries(list) ==
    IF list = <<>> THEN <<>>
    ELSE SerializeEntry(Head(list)) \o SerializeEntries(Tail(list))

\* The comment header written back into the packet's buffer
CommentHeader_serialize(h) ==
    COMMENT_MAGIC \o EncU32(Len(h.vendor)) \o h.vendor
    \o EncU32(Len(h.comments)) \o SerializeEntries(h.comments) \o h.tail

\* impl PartialEq for CommentHeader: the codec's byte-level equality
CommentHeader_eq(a, b) == CommentHeader_serialize(a) = CommentHeader_serialize(b)

\* CommentHeader::to_discrete_comment_list
to_discrete_comment_list(h) == h.comments

\* ----------------------------------------------------- comment transform

\* opuscomment.rs ValueMatch::matches; a ValueMatch is [all, values]
ValueMatch_matches(vm, value) == vm.all \/ value \in vm.values

\* opuscomment.rs KeyValueMatch::matches; keys is a function from the keys
\* given on the command line to their ValueMatch (HashMap::get: exact key)
KeyValueMatch_matches(keys, key, value) ==
    IF key \in DOMAIN keys THEN ValueMatch_matches(keys[key], value) ELSE FALSE

\* CommentList::retain with the closure opuscomment.rs builds for Modify:
\* keep the entries no delete pattern matches, in order
retain(list, delete_tags) ==
    LET Keep(e) == ~KeyValueMatch_matches(delete_tags, e[1], e[2])
    IN SelectSeq(list, Keep)

\* CommentHeaderRewrite::summarize
Comment_summarize(opus_header, comment_header) ==
    [ok |-> TRUE, summary |-> to_discrete_comment_list(comment_header)]

\* The result of rewrite once the list operations gave r
Comment_rewritten(opus_header, comment_header, r) ==
    [ok |-> r.ok, err |-> IF r.ok THEN "" ELSE r.err, opus |-> opus_header,
     comment |-> [comment_header EXCEPT !.comments = r.list]]

\* rewrite whose Replace arm does not clear the header first
Comment_rewrite_without_clear(action, opus_header, comment_header) ==
    CASE action.kind = "NoChange" ->
           [ok |-> TRUE, err |-> "", opus |-> opus_header, comment |-> comment_header]
      [] action.kind = "Replace" ->
           Comment_rewritten(opus_header, comment_header,
                             extend(comment_header.comments, action.tags))
      [] action.kind = "Modify" ->
           Comment_rewritten(opus_header, comment_header,
                             extend(retain(comment_header.comments, action.delete_tags),
                                    action.append))

\* rewrite whose Modify arm appends before it deletes
Comment_rewrite_appends_first(action, opus_header, comment_header) ==
    CASE action.kind = "NoChange" ->
           [ok |-> TRUE, err |-> "", opus |-> opus_header, comment |-> comment_header]
      [] action.kind = "Replace" ->
           Comment_rewritten(opus_header, comment_header, extend(<<>>, action.tags))
      [] action.kind = "Modify" ->
           Comment_rewritten(opus_header, comment_header,
                             [ok |-> extend(comment_header.comments, action.append).ok,
                              err |-> "InvalidCommentFieldName",
                              list |-> retain(extend(comment_header.comments,
                                                     action.append).list,
                                              action.delete_tags)])

\* An entry of the list equal to e, key and value
Holds(list, e) == \E j \in 1..Len(list) : list[j] = e

\* The entries of append the list does not hold yet
Missing(list, append) == SelectSeq(append, LAMBDA e : ~Holds(list, e))

\* rewrite whose Modify arm appends only the entries not yet present
Comment_rewrite_skips_present(action, opus_header, comment_header) ==
    CASE action.kind = "NoChange" ->
           [ok |-> TRUE, err |-> "", opus |-> opus_header, comment |-> comment_header]
      [] action.kind = "Replace" ->
           Comment_rewritten(opus_header, comment_header, extend(<<>>, action.tags))
      [] action.kind = "Modify" ->
           Comment_rewritten(opus_header, comment_header,
                             extend(retain(comment_header.comments, action.delete_tags),
                                    Missing(retain(comment_header.comments,
                                                   action.delete_tags), action.append)))

\* CommentHeaderRewrite::rewrite, action is the CommentRewriterAction
Comment_rewrite(action, opus_header, comment_header) ==
    CASE action.kind = "NoChange" ->
           [ok |-> TRUE, err |-> "", opus |-> opus_header, comment |-> comment_header]
      [] action.kind = "Replace" ->
           LET r == extend(<<>>, action.tags) IN
           [ok |-> r.ok, err |-> IF r.ok THEN "" ELSE r.err, opus |-> opus_header,
            comment |-> [comment_header EXCEPT !.comments = r.list]]
      [] action.kind = "Modify" ->
           LET r == extend(retain(comment_header.comments, action.delete_tags),
                           action.append)
           IN [ok |-> r.ok, err |-> IF r.ok THEN "" ELSE r.err, opus |-> opus_header,
               comment |-> [comment_header EXCEPT !.comments = r.list]]

\* ------------------------------------------------------ volume transform
\* Gains and loudness values are Q7.8 fixed point: integers, 256 per dB.

\* constants.rs: R128_LUFS (-23 LUFS) in Q7.8
R128_LUFS == (-23) * 256

\* constants.rs: REPLAY_GAIN_LUFS (-18 LUFS) in Q7.8
REPLAY_GAIN_LUFS == (-18) * 256

\* constants.rs: TAG_TRACK_GAIN, the bytes of "R128_TRACK_GAIN"
TAG_TRACK_GAIN == <<82, 49, 50, 56, 95, 84, 82, 65, 67, 75, 95, 71, 65, 73, 78>>

\* constants.rs: TAG_ALBUM_GAIN, the bytes of "R128_ALBUM_GAIN"
TAG_ALBUM_GAIN == <<82, 49, 50, 56, 95, 65, 76, 66, 85, 77, 95, 71, 65, 73, 78>>

\* Decimal digits of a natural number, no leading zeros
RECURSIVE Digits(_)
Digits(n) == IF n < 10 THEN <<48 + n>> ELSE Digits(n \div 10) \o <<48 + (n % 10)>>

\* A gain as an R128 tag value: ASCII signed decimal, '-' for negatives
FormatGain(v) == IF v < 0 THEN <<45>> \o Digits(-v) ELSE Digits(v)

RECURSIVE DigitsValue(_)
DigitsValue(s) ==
    IF s = <<>> THEN 0
    ELSE DigitsValue(SubSeq(s, 1, Len(s) - 1)) * 10 + (s[Len(s)] - 48)

RECURSIVE TrimSpaces(_)
TrimSpaces(s) ==
    IF s = <<>> THEN s
    ELSE IF Head(s) = 32 THEN TrimSpaces(Tail(s))
    ELSE IF s[Len(s)] = 32 THEN TrimSpaces(SubSeq(s, 1, Len(s) - 1))
    ELSE s

\* An R128 tag value parsed permissively (spaces trimmed, leading '+'
\* accepted); None when it is no i16 decimal
ParseGain(value) ==
    LET t == TrimSpaces(value)
        signed == t # <<>> /\ (t[1] = 43 \/ t[1] = 45)
        ds == IF signed THEN Tail(t) ELSE t
        good == ds # <<>> /\ \A i \in 1..Len(ds) : ds[i] >= 48 /\ ds[i] <= 57
        v == IF signed /\ t[1] = 45 THEN -DigitsValue(ds) ELSE DigitsValue(ds)
    IN IF good /\ InI16(v) THEN Some(v) ELSE None

\* The gain held by the first tag of that name, if any and if valid
get_gain_from_tag(comments, tag) ==
    LET v == get_first(comments, tag) IN
    IF v = None THEN None ELSE ParseGain(v[1])

\* VolumeHeaderRewrite::summarize: the OpusGains of the two headers
Volume_summarize(opus_header, comment_header) ==
    [ok |-> TRUE,
     summary |-> [output |-> get_output_gain(opus_header),
                  track_r128 |-> get_gain_from_tag(comment_header.comments, TAG_TRACK_GAIN),
                  album_r128 |-> get_gain_from_tag(comment_header.comments, TAG_ALBUM_GAIN)]]

\* The output gain the target asks for; config is the VolumeRewriterConfig
Volume_new_gain(config, current) ==
    CASE config.output_gain.kind = "NoChange" -> current
      [] config.output_gain.kind = "ZeroGain" -> 0
      [] config.output_gain.kind = "LUFS" ->
           IF config.output_gain_mode = "Album"
           THEN config.output_gain.lufs - config.album_volume[1]
           ELSE config.output_gain.lufs - config.track_volume[1]

\* VolumeHeaderRewrite::rewrite: drop the R128 tags, set the output gain,
\* push fresh tags relative to R128_LUFS after the applied gain
Volume_rewrite(config, opus_header, comment_header) ==
    LET cleared == remove_all(remove_all(comment_header.comments, TAG_TRACK_GAIN),
                              TAG_ALBUM_GAIN)
        current == get_output_gain(opus_header)
        gain == Volume_new_gain(config, current)
        applied == gain - current
        track == IF config.track_volume = None THEN None
                 ELSE Some(R128_LUFS - (config.track_volume[1] + applied))
        album == IF config.album_volume = None THEN None
                 ELSE Some(R128_LUFS - (config.album_volume[1] + applied))
        tags == (IF track = None THEN <<>> ELSE <<(<<TAG_TRACK_GAIN, FormatGain(track[1])>>)>>)
                \o (IF album = None THEN <<>> ELSE <<(<<TAG_ALBUM_GAIN, FormatGain(album[1])>>)>>)
        fail == [ok |-> FALSE, err |-> "GainOutOfBounds", opus |-> opus_header,
                 comment |-> comment_header]
    IN IF config.output_gain.kind = "NoChange"
       THEN [ok |-> TRUE, err |-> "", opus |-> opus_header,
             comment |-> [comment_header EXCEPT !.comments = cleared]]
       ELSE IF ~InI16(gain) THEN fail
       ELSE IF track # None /\ ~InI16(track[1]) THEN fail
       ELSE IF album # None /\ ~InI16(album[1]) THEN fail
       ELSE [ok |-> TRUE, err |-> "", opus |-> set_output_gain(opus_header, gain),
             comment |-> [comment_header EXCEPT !.comments = cleared \o tags]]

\* ------------------------------------------------ the HeaderRewrite trait
\* header_rewrite is [kind |-> "Comment", action |-> ...] or
\* [kind |-> "Volume", config |-> ...].

\* HeaderRewrite::summarize
summarize(hr, opus_header, comment_header) ==
    IF hr.kind = "Comment" THEN Comment_summarize(opus_header, comment_header)
    ELSE Volume_summarize(opus_header, comment_header)

\* HeaderRewrite::rewrite
rewrite(hr, opus_header, comment_header) ==
    IF hr.kind = "Comment" THEN Comment_rewrite(hr.action, opus_header, comment_header)
    ELSE Volume_rewrite(hr.config, opus_header, comment_header)

\* ------------------------------------------------------- header rewriter
\* A Packet is [data, stream_serial, absgp_page, last_in_page, last_in_stream].
\* A rewriter is [state, header_packet, packet_queue, packet_writer]; the
\* packet_writer is the sequence of packets written to the sink so far.

\* HeaderRewriter::new
HeaderRewriter_new ==
    [state |-> "AwaitingHeader", header_packet |-> None,
     packet_queue |-> <<>>, packet_writer |-> <<>>]

\* packet_info testing last_in_page before last_in_stream
packet_info_page_first(packet) ==
    IF packet.last_in_page THEN "EndPage"
    ELSE IF packet.last_in_stream THEN "EndStream"
    ELSE "NormalPacket"

\* The PacketWriteEndInfo of a packet (submit, the head of the drain loop)
packet_info(packet) ==
    IF packet.last_in_stream THEN "EndStream"
    ELSE IF packet.last_in_page THEN "EndPage"
    ELSE "NormalPacket"

\* One write_packet call: what the sink receives
write_packet(packet) ==
    [data |-> packet.data, serial |-> packet.stream_serial,
     info |-> packet_info(packet), absgp |-> packet.absgp_page]

\* The drain loop popping from the back of the queue (pop_back)
RECURSIVE drain_pop_back(_, _)
drain_pop_back(rw, fail_at) ==
    IF rw.packet_queue = <<>> THEN [rw |-> rw, result |-> [kind |-> "Good"]]
    ELSE LET n == Len(rw.packet_queue)
             rest == SubSeq(rw.packet_queue, 1, n - 1)
         IN IF fail_at = 1
            THEN [rw |-> [rw EXCEPT !.packet_queue = rest],
                  result |-> [kind |-> "Err", err |-> "WriteError"]]
            ELSE drain_pop_back(
                     [rw EXCEPT !.packet_queue = rest,
                                !.packet_writer =
                                    Append(rw.packet_writer,
                                           write_packet(rw.packet_queue[n]))],
                     IF fail_at = 0 THEN 0 ELSE fail_at - 1)

\* The drain loop as an `if let`: one packet written per call
drain_if_let(rw, fail_at) ==
    IF rw.packet_queue = <<>> THEN [rw |-> rw, result |-> [kind |-> "Good"]]
    ELSE IF fail_at = 1
         THEN [rw |-> [rw EXCEPT !.packet_queue = Tail(rw.packet_queue)],
               result |-> [kind |-> "Err", err |-> "WriteError"]]
         ELSE [rw |-> [rw EXCEPT !.packet_queue = Tail(rw.packet_queue),
                                 !.packet_writer =
                                     Append(rw.packet_writer,
                                            write_packet(Head(rw.packet_queue)))],
               result |-> [kind |-> "Good"]]

\* The drain loop of submit.  fail_at = k > 0 makes the k-th write_packet
\* of this call fail: the packet popped for it is lost, the rest stay
\* queued and submit returns WriteError.  fail_at = 0: every write succeeds.
RECURSIVE drain(_, _)
drain(rw, fail_at) ==
    IF rw.packet_queue = <<>> THEN [rw |-> rw, result |-> [kind |-> "Good"]]
    ELSE IF fail_at = 1
         THEN [rw |-> [rw EXCEPT !.packet_queue = Tail(rw.packet_queue)],
               result |-> [kind |-> "Err", err |-> "WriteError"]]
         ELSE drain([rw EXCEPT !.packet_queue = Tail(rw.packet_queue),
                               !.packet_writer =
                                   Append(rw.packet_writer,
                                          write_packet(Head(rw.packet_queue)))],
                    IF fail_at = 0 THEN 0 ELSE fail_at - 1)

\* changed computed from the ID header alone
headers_changed_opus_only(opus_header, opus_header_orig, comment_header, comment_header_orig) ==
    ~OpusHeader_eq(opus_header, opus_header_orig)

\* submit, line 113: whether the rewritten headers differ from the originals
headers_changed(opus_header, opus_header_orig, comment_header, comment_header_orig) ==
    ~OpusHeader_eq(opus_header, opus_header_orig)
    \/ ~CommentHeader_eq(comment_header, comment_header_orig)

\* SubmitResult: the two results that carry header summaries
HeaderKinds == {"HeadersChanged", "HeadersUnchanged"}

\* submit, lines 123-127: the result of the second submit
header_result(changed, summary_before, summary_after) ==
    IF changed
    THEN [kind |-> "HeadersChanged", from |-> summary_before, to |-> summary_after]
    ELSE [kind |-> "HeadersUnchanged", summary |-> summary_before]

\* submit in state AwaitingComments queueing the ID header packet before it
\* parses anything, so that an error leaves it in the queue
submit_comments_queues_first(rw, hr, packet) ==
    IF rw.header_packet = None
    THEN [rw |-> rw, result |-> [kind |-> "Panic", err |-> "Missing header packet"]]
    ELSE
    LET opus_header_packet == rw.header_packet[1]
        taken == [rw EXCEPT !.header_packet = None]
        failed(e) == [rw |-> [taken EXCEPT !.packet_queue = Append(@, opus_header_packet)],
                      result |-> [kind |-> "Err", err |-> e]]
        opus == OpusHeader_try_parse(opus_header_packet.data)
        parsed == CommentHeader_try_parse(packet.data)
    IN  IF opus = None THEN failed("MissingOpusStream")
        ELSE IF parsed.kind = "None" THEN failed("MissingCommentHeader")
        ELSE IF parsed.kind = "Err" THEN failed(parsed.err)
        ELSE
        LET before == summarize(hr, opus[1], parsed.header) IN
        IF ~before.ok THEN failed(before.err)
        ELSE
        LET rewritten == rewrite(hr, opus[1], parsed.header) IN
        IF ~rewritten.ok THEN failed(rewritten.err)
        ELSE
        LET after == summarize(hr, rewritten.opus, rewritten.comment) IN
        IF ~after.ok THEN failed(after.err)
        ELSE
        LET opus_header_orig == OpusHeader_try_parse(opus_header_packet.data)[1]
            comment_header_orig == CommentHeader_try_parse(packet.data).header
            changed == headers_changed(rewritten.opus, opus_header_orig,
                                       rewritten.comment, comment_header_orig)
            opus_out == [opus_header_packet EXCEPT !.data = rewritten.opus]
            comment_out == [packet EXCEPT !.data = CommentHeader_serialize(rewritten.comment)]
        IN [rw |-> [taken EXCEPT
                      !.packet_queue = Append(Append(rw.packet_queue, opus_out), comment_out),
                      !.state = "Forwarding"],
            result |-> header_result(changed, before.summary, after.summary)]

\* submit in state AwaitingComments.  The buffered packet is taken before
\* anything can fail, so an error leaves the slot empty; on success both
\* (rewritten) header packets are queued and submit returns at once.
submit_comments(rw, hr, packet) ==
    IF rw.header_packet = None
    THEN [rw |-> rw, result |-> [kind |-> "Panic", err |-> "Missing header packet"]]
    ELSE
    LET opus_header_packet == rw.header_packet[1]
        taken == [rw EXCEPT !.header_packet = None]
        failed(e) == [rw |-> taken, result |-> [kind |-> "Err", err |-> e]]
        opus == OpusHeader_try_parse(opus_header_packet.data)
        parsed == CommentHeader_try_parse(packet.data)
    IN  IF opus = None THEN failed("MissingOpusStream")
        ELSE IF parsed.kind = "None" THEN failed("MissingCommentHeader")
        ELSE IF parsed.kind = "Err" THEN failed(parsed.err)
        ELSE
        LET before == summarize(hr, opus[1], parsed.header) IN
        IF ~before.ok THEN failed(before.err)
        ELSE
        LET rewritten == rewrite(hr, opus[1], parsed.header) IN
        IF ~rewritten.ok THEN failed(rewritten.err)
        ELSE
        LET after == summarize(hr, rewritten.opus, rewritten.comment) IN
        IF ~after.ok THEN failed(after.err)
        ELSE
        LET opus_header_orig == OpusHeader_try_parse(opus_header_packet.data)[1]
            comment_header_orig == CommentHeader_try_parse(packet.data).header
            changed == headers_changed(rewritten.opus, opus_header_orig,
                                       rewritten.comment, comment_header_orig)
            opus_out == [opus_header_packet EXCEPT !.data = rewritten.opus]
            comment_out == [packet EXCEPT !.data = CommentHeader_serialize(rewritten.comment)]
        IN [rw |-> [taken EXCEPT
                      !.packet_queue = Append(Append(rw.packet_queue, opus_out), comment_out),
                      !.state = "Forwarding"],
            result |-> header_result(changed, before.summary, after.summary)]

\* submit without the early return of the AwaitingComments arm: the two
\* header packets are written before the header result is returned
submit_falls_through(rw, hr, packet, fail_at) ==
    CASE rw.state = "AwaitingHeader" ->
           drain([rw EXCEPT !.header_packet = Some(packet),
                            !.state = "AwaitingComments"], fail_at)
      [] rw.state = "AwaitingComments" ->
           LET r == submit_comments(rw, hr, packet) IN
           [rw |-> drain(r.rw, 0).rw, result |-> r.result]
      [] rw.state = "Forwarding" ->
           drain([rw EXCEPT !.packet_queue = Append(rw.packet_queue, packet)], fail_at)

\* submit whose AwaitingHeader arm forgets to advance the state
submit_state_stuck(rw, hr, packet, fail_at) ==
    CASE rw.state = "AwaitingHeader" ->
           drain([rw EXCEPT !.header_packet = Some(packet)], fail_at)
      [] rw.state = "AwaitingComments" -> submit_comments(rw, hr, packet)
      [] rw.state = "Forwarding" ->
           drain([rw EXCEPT !.packet_queue = Append(rw.packet_queue, packet)], fail_at)

\* HeaderRewriter::submit
submit(rw, hr, packet, fail_at) ==
    CASE rw.state = "AwaitingHeader" ->
           drain([rw EXCEPT !.header_packet = Some(packet),
                            !.state = "AwaitingComments"], fail_at)
      [] rw.state = "AwaitingComments" -> submit_comments(rw, hr, packet)
      [] rw.state = "Forwarding" ->
           drain([rw EXCEPT !.packet_queue = Append(rw.packet_queue, packet)], fail_at)

\* ------------------------------------------------------ volume analyzer
\* An analyzer is [decode_state, state, windows, track_loudness].  The
\* decode state is None or Some([channel_count, channel_windows]), where
\* channel_windows is the 100 ms window powers each channel's meter holds.

\* VolumeAnalyzer::new
VolumeAnalyzer_new ==
    [decode_state |-> None, state |-> "AwaitingHeader",
     windows |-> <<>>, track_loudness |-> <<>>]

\* DecodeState::new taking any channel count
DecodeState_new_any_channels(channel_count) ==
    [ok |-> TRUE,
     decode_state |-> [channel_count |-> channel_count, channel_windows |-> <<>>]]

\* DecodeState::new: only mono and stereo are accepted
DecodeState_new(channel_count) ==
    IF channel_count = 1 \/ channel_count = 2
    THEN [ok |-> TRUE,
          decode_state |-> [channel_count |-> channel_count, channel_windows |-> <<>>]]
    ELSE [ok |-> FALSE, err |-> <<"InvalidChannelCount", channel_count>>]

\* The Opus decoder and the BS.1770 meter: a packet adds one window to each
\* channel's meter, its power read off the packet's first byte
DecodePacket(data) == IF data = <<>> THEN <<>> ELSE <<data[1]>>

\* DecodeState::push_packet
push_packet(decode_state, data) ==
    [decode_state EXCEPT !.channel_windows = @ \o DecodePacket(data)]

\* DecodeState::get_windows: per window the channels' powers summed, then
\* scaled by 2 for mono and 1 for stereo
get_windows(decode_state) ==
    LET power_scale_factor == IF decode_state.channel_count = 1 THEN 2 ELSE 1
    IN [i \in 1..Len(decode_state.channel_windows) |->
           decode_state.channel_count * decode_state.channel_windows[i]
           * power_scale_factor]

RECURSIVE SumSeq(_)
SumSeq(s) == IF s = <<>> THEN 0 ELSE Head(s) + SumSeq(Tail(s))

\* VolumeAnalyzer::gated_mean_to_lufs: the gated mean of no windows is NaN
\* and reported as 0; otherwise a loudness in Q7.8 that grows with the mean
\* window power
gated_mean_to_lufs(windows) ==
    IF windows = <<>> THEN 0
    ELSE (-30) * 256 + 32 * ((8 * SumSeq(windows)) \div Len(windows))

\* VolumeAnalyzer::submit
Analyzer_submit(an, packet) ==
    CASE an.state = "AwaitingHeader" ->
           LET header == OpusHeader_try_parse(packet.data) IN
           IF header = None
           THEN [ok |-> FALSE, err |-> "MissingOpusStream", an |-> an]
           ELSE LET ds == DecodeState_new(num_output_channels(header[1])) IN
                IF ~ds.ok THEN [ok |-> FALSE, err |-> ds.err, an |-> an]
                ELSE [ok |-> TRUE, err |-> "",
                      an |-> [an EXCEPT !.decode_state = Some(ds.decode_state),
                                        !.state = "AwaitingComments"]]
      [] an.state = "AwaitingComments" ->
           LET parsed == CommentHeader_try_parse(packet.data) IN
           IF parsed.kind = "None"
           THEN [ok |-> FALSE, err |-> "MissingCommentHeader", an |-> an]
           ELSE IF parsed.kind = "Err" THEN [ok |-> FALSE, err |-> parsed.err, an |-> an]
           ELSE [ok |-> TRUE, err |-> "", an |-> [an EXCEPT !.state = "Analyzing"]]
      [] an.state = "Analyzing" ->
           [ok |-> TRUE, err |-> "",
            an |-> [an EXCEPT !.decode_state =
                                  Some(push_packet(an.decode_state[1], packet.data))]]

\* file_complete leaving the state field as it is
file_complete_keeps_state(an) ==
    IF an.decode_state # None
    THEN [an EXCEPT !.decode_state = None,
                    !.windows = @ \o get_windows(an.decode_state[1]),
                    !.track_loudness =
                        Append(@, gated_mean_to_lufs(get_windows(an.decode_state[1])))]
    ELSE an

\* VolumeAnalyzer::file_complete
file_complete(an) ==
    IF an.decode_state # None
    THEN LET windows == get_windows(an.decode_state[1]) IN
         [decode_state |-> None, state |-> "AwaitingHeader",
          windows |-> an.windows \o windows,
          track_loudness |-> Append(an.track_loudness, gated_mean_to_lufs(windows))]
    ELSE [an EXCEPT !.state = "AwaitingHeader"]

\* VolumeAnalyzer::last_track_lufs
last_track_lufs(an) ==
    IF an.track_loudness = <<>> THEN None
    ELSE Some(an.track_loudness[Len(an.track_loudness)])

\* VolumeAnalyzer::mean_lufs_across_multiple: the gated mean over the
\* windows of all the analyzers, in the order given
RECURSIVE AllWindows(_)
AllWindows(analyzers) ==
    IF analyzers = <<>> THEN <<>>
    ELSE Head(analyzers).windows \o AllWindows(Tail(analyzers))

mean_lufs_across_multiple(analyzers) == gated_mean_to_lufs(AllWindows(analyzers))

\* ------------------------------------------------------- escape codec

\* escaping.rs: ESCAPE_CHAR, the backslash
ESCAPE_CHAR == 92

\* escaping.rs: ESCAPED_CHARS, NUL, LF, CR and the backslash
ESCAPED_CHARS == {0, 10, 13, ESCAPE_CHAR}

\* EscapingIterator: an escaped character becomes the backslash and its code
RECURSIVE EscapingIterator(_)
EscapingIterator(value) ==
    IF value = <<>> THEN <<>>
    ELSE LET c == Head(value)
             out == CASE c = 0 -> <<ESCAPE_CHAR, 48>>
                      [] c = 10 -> <<ESCAPE_CHAR, 110>>
                      [] c = 13 -> <<ESCAPE_CHAR, 114>>
                      [] c = ESCAPE_CHAR -> <<ESCAPE_CHAR, ESCAPE_CHAR>>
                      [] OTHER -> <<c>>
         IN out \o EscapingIterator(Tail(value))

\* escape_str handing its input back whatever it holds
escape_str_unescaped(value) == [cow |-> "Borrowed", value |-> value]

\* escape_str looking for the backslash only before it escapes
escape_str_only_backslash(value) ==
    IF \E i \in 1..Len(value) : value[i] = ESCAPE_CHAR
    THEN [cow |-> "Owned", value |-> EscapingIterator(value)]
    ELSE [cow |-> "Borrowed", value |-> value]

\* escape_str: a Cow, borrowed from the input when nothing is to escape,
\* else the String collected from the iterator
escape_str(value) ==
    IF \E i \in 1..Len(value) : value[i] \in ESCAPED_CHARS
    THEN [cow |-> "Owned", value |-> EscapingIterator(value)]
    ELSE [cow |-> "Borrowed", value |-> value]

\* The loop of unescape_str: result so far and the is_escape flag
RECURSIVE UnescapeLoop(_, _, _)
UnescapeLoop(value, result, is_escape) ==
    IF value = <<>>
    THEN IF is_escape THEN [ok |-> FALSE, err |-> <<"TrailingBackslash">>]
         ELSE [ok |-> TRUE, value |-> result]
    ELSE LET c == Head(value) IN
         IF is_escape
         THEN CASE c = 48 -> UnescapeLoop(Tail(value), Append(result, 0), FALSE)
                [] c = 110 -> UnescapeLoop(Tail(value), Append(result, 10), FALSE)
                [] c = 114 -> UnescapeLoop(Tail(value), Append(result, 13), FALSE)
                [] c = ESCAPE_CHAR ->
                     UnescapeLoop(Tail(value), Append(result, ESCAPE_CHAR), FALSE)
                [] OTHER -> [ok |-> FALSE, err |-> <<"InvalidEscape", c>>]
         ELSE IF c = ESCAPE_CHAR THEN UnescapeLoop(Tail(value), result, TRUE)
         ELSE UnescapeLoop(Tail(value), Append(result, c), FALSE)

\* unescape_str decoding nothing
unescape_str_undecoded(value) == [ok |-> TRUE, value |-> value]

\* unescape_str reporting every failure as a trailing backslash
unescape_str_one_error(value) ==
    IF UnescapeLoop(value, <<>>, FALSE).ok
    THEN UnescapeLoop(value, <<>>, FALSE)
    ELSE [ok |-> FALSE, err |-> <<"TrailingBackslash">>]

\* unescape_str
unescape_str(value) ==
    IF ~(\E i \in 1..Len(value) : value[i] = ESCAPE_CHAR)
    THEN [ok |-> TRUE, value |-> value]
    ELSE UnescapeLoop(value, <<>>, FALSE)

\* -------------------------------------------------------- stream rewrite
\* The loop that feeds a file's packets to a rewriter.  Its state is
\* [rw, pos, result]: the rewriter, the packets read so far and the header
\* result seen so far (Good until the second submit).

rewrite_stream_start ==
    [rw |-> HeaderRewriter_new, pos |-> 0, result |-> [kind |-> "Good"]]

\* The loop after a submit that returned r (the rewriter it left, its
\* result): errors return, HeadersUnchanged returns when abort_on_unchanged,
\* a header result is kept for the return at the end of the stream
rewrite_stream_submitted(st, r, abort_on_unchanged) ==
    CASE r.result.kind = "Good" ->
           [done |-> FALSE, st |-> [st EXCEPT !.rw = r.rw, !.pos = @ + 1],
            value |-> r.result]
      [] r.result.kind = "HeadersChanged" ->
           [done |-> FALSE,
            st |-> [st EXCEPT !.rw = r.rw, !.pos = @ + 1, !.result = r.result],
            value |-> r.result]
      [] r.result.kind = "HeadersUnchanged" ->
           [done |-> abort_on_unchanged,
            st |-> [st EXCEPT !.rw = r.rw, !.pos = @ + 1, !.result = r.result],
            value |-> r.result]
      [] OTHER ->
           [done |-> TRUE, st |-> [st EXCEPT !.rw = r.rw, !.pos = @ + 1],
            value |-> r.result]

\* One turn of the loop: poll the interrupt flag, read a packet, submit it.
\* done tells whether the loop returned, value what it returned.
rewrite_stream_turn(st, hr, packets, abort_on_unchanged, interrupted, write_fails) ==
    IF interrupted
    THEN [done |-> TRUE, st |-> st, value |-> [kind |-> "Err", err |-> "Interrupted"]]
    ELSE IF st.pos = Len(packets)
    THEN [done |-> TRUE, st |-> st, value |-> st.result]
    ELSE rewrite_stream_submitted(
             st, submit(st.rw, hr, packets[st.pos + 1], IF write_fails THEN 1 ELSE 0),
             abort_on_unchanged)

\* rewrite_stream: the loop run to its return, without an interrupt checker.
\* fail_pos = k > 0 makes the first sink write of the k-th submit fail.
RECURSIVE rewrite_stream_from(_, _, _, _, _)
RECURSIVE rewrite_stream_next(_, _, _, _, _)
rewrite_stream_from(st, hr, packets, abort_on_unchanged, fail_pos) ==
    rewrite_stream_next(rewrite_stream_turn(st, hr, packets, abort_on_unchanged, FALSE,
                                            st.pos + 1 = fail_pos),
                        hr, packets, abort_on_unchanged, fail_pos)

\* The loop after the turn t: return, or take the next turn
rewrite_stream_next(t, hr, packets, abort_on_unchanged, fail_pos) ==
    IF t.done THEN [st |-> t.st, value |-> t.value]
    ELSE rewrite_stream_from(t.st, hr, packets, abort_on_unchanged, fail_pos)

rewrite_stream(hr, packets, abort_on_unchanged, fail_pos) ==
    rewrite_stream_from(rewrite_stream_start, hr, packets, abort_on_unchanged, fail_pos)

\* The Ogg library's reader on what its writer wrote: an EndStream packet
\* ends its page and the stream, an EndPage packet ends its page
read_packet(written) ==
    [data |-> written.data, stream_serial |-> written.serial,
     absgp_page |-> written.absgp,
     last_in_page |-> written.info \in {"EndPage", "EndStream"},
     last_in_stream |-> written.info = "EndStream"]

\* The packets of the file an output with these writes becomes
read_packets(written) ==
    [i \in 1..Len(written) |-> read_packet(written[i])]

\* ------------------------------------------------------------- inputs

\* The longest stream submitted to one rewriter
MaxPackets == 4

\* A 19-byte Opus ID header: magic, version, channels, pre-skip, sample
\* rate 48000, output gain, mapping family
IdHeader(channels, gain) ==
    OPUS_MAGIC \o <<1, channels, 0, 0, 128, 187, 0, 0>> \o ToLE16(gain) \o <<0>>

\* A comment header packet with vendor "z"
CommentPacketData(comments, tail) ==
    CommentHeader_serialize([vendor |-> <<122>>, comments |-> comments, tail |-> tail])

KEY_T == <<84>>
KEY_t == <<116>>
KEY_A == <<65>>
KEY_G == <<71>>

Pkt(data, serial, absgp, in_page, in_stream) ==
    [data |-> data, stream_serial |-> serial, absgp_page |-> absgp,
     last_in_page |-> in_page, last_in_stream |-> in_stream]

\* ID header packets: output gain 0, output gain 32767, one byte too short
PK_ID == Pkt(IdHeader(2, 0), 7, 0, TRUE, FALSE)
PK_ID_LOUD == Pkt(IdHeader(2, 32767), 7, 0, TRUE, FALSE)
PK_ID_SHORT == Pkt(Take(IdHeader(2, 0), OPUS_MIN_HEADER_SIZE - 1), 7, 0, TRUE, FALSE)

\* Comment header packets: T=a A=b t=c with a framing tail; a track gain tag
\* ahead of another tag; a header whose vendor length runs past the packet
PK_TAGS == Pkt(CommentPacketData(<<(<<KEY_T, <<97>>>>), (<<KEY_A, <<98>>>>),
                                   (<<KEY_t, <<99>>>>)>>, <<1>>), 7, 0, TRUE, FALSE)
PK_TAGS_GAIN == Pkt(CommentPacketData(<<(<<TAG_TRACK_GAIN, <<48>>>>),
                                        (<<KEY_T, <<97>>>>)>>, <<>>), 7, 0, TRUE, FALSE)
PK_TAGS_BAD == Pkt(COMMENT_MAGIC \o EncU32(9) \o <<122>>, 7, 0, TRUE, FALSE)

\* Audio packets, one per PacketWriteEndInfo case
PK_AUDIO == Pkt(<<1, 2, 3>>, 7, 960, FALSE, FALSE)
PK_AUDIO_PAGE == Pkt(<<4, 5>>, 7, 1920, TRUE, FALSE)
PK_AUDIO_LAST == Pkt(<<6>>, 7, 2880, TRUE, TRUE)
PK_AUDIO_EOS == Pkt(<<9, 9>>, 8, 3840, FALSE, TRUE)

PacketPool ==
    {PK_ID, PK_ID_LOUD, PK_ID_SHORT, PK_TAGS, PK_TAGS_GAIN, PK_TAGS_BAD,
     PK_AUDIO, PK_AUDIO_PAGE, PK_AUDIO_LAST, PK_AUDIO_EOS}

\* A bare-KEY delete pattern and a KEY=VALUE delete pattern
MatchAll == [all |-> TRUE, values |-> {}]
MatchValues(vs) == [all |-> FALSE, values |-> vs]

CommentAction(action) == [kind |-> "Comment", action |-> action]
VolumeConfig(target, mode, track, album) ==
    [kind |-> "Volume",
     config |-> [output_gain |-> target, output_gain_mode |-> mode,
                 track_volume |-> track, album_volume |-> album]]

\* The transforms a rewriter is constructed with
HeaderRewrites ==
    {CommentAction([kind |-> "NoChange"]),
     CommentAction([kind |-> "Replace", tags |-> <<(<<KEY_T, <<120>>>>)>>]),
     CommentAction([kind |-> "Modify", delete_tags |-> (KEY_T :> MatchAll),
                    append |-> <<(<<KEY_G, <<106>>>>)>>]),
     CommentAction([kind |-> "Modify", delete_tags |-> (KEY_A :> MatchValues({<<120>>})),
                    append |-> <<>>]),
     CommentAction([kind |-> "Modify", delete_tags |-> <<>>,
                    append |-> <<(<<KEY_T, <<97>>>>)>>]),
     CommentAction([kind |-> "Modify", delete_tags |-> (KEY_T :> MatchAll),
                    append |-> <<(<<KEY_T, <<97>>>>)>>]),
     VolumeConfig([kind |-> "NoChange"], "Track", None, None),
     VolumeConfig([kind |-> "ZeroGain"], "Track", Some(R128_LUFS), None),
     VolumeConfig([kind |-> "ZeroGain"], "Track", Some(R128_LUFS - 256), None),
     VolumeConfig([kind |-> "LUFS", lufs |-> REPLAY_GAIN_LUFS], "Track",
                  Some((-14) * 256), None)}

\* ---------------------------------------------------------------- state

VARIABLES
    state,            \* HeaderRewriter.state
    header_packet,    \* HeaderRewriter.header_packet
    packet_queue,     \* HeaderRewriter.packet_queue
    packet_writer,    \* packets written to the sink, in order
    header_rewrite,   \* HeaderRewriter.header_rewrite
    submitted,        \* history: the packets submitted so far
    results,          \* history: what each submit returned
    tool,             \* the binary that runs: "opusgain", "opuscomment"
    cli,              \* its parsed command line
    running,          \* the flag the Ctrl-C handler clears
    files,            \* the file system: path -> None or Some(packets)
    temp,             \* the target paths whose temporary output file exists
    pc,               \* path -> where the task of that input file stands
    task,             \* path -> the locals of that task
    rewrite_mutex,    \* None, or Some(path) of the task holding the guard
    album,            \* compute_album_volume: tracks, analyzers, the result
    main,             \* where main_impl stands, then how it ended
    counters,         \* num_processed, num_already_normalized
    commits,          \* history: the calls of OutputFile::commit
    original,         \* history: the file system when the tool started
    previous,         \* history: None, or Some(path -> rewrite result) of the run before
    text,             \* the string handed to the escaping functions
    comment_list,     \* a DiscreteCommentList
    calls,            \* history: the library calls made, with their results
    id_header,        \* the data of an OpusHeader
    analyzer,         \* a VolumeAnalyzer
    stream            \* the stream read for it: packets, pos, failed

rewriter_vars == <<state, header_packet, packet_queue, packet_writer, header_rewrite,
                   submitted, results>>

tool_vars == <<tool, cli, running, files, temp, pc, task, rewrite_mutex, album,
               main, counters, commits, original, previous>>

unit_vars == <<id_header, analyzer, stream>>

lib_vars == <<text, comment_list, calls, id_header, analyzer, stream>>

vars == <<state, header_packet, packet_queue, packet_writer, header_rewrite,
          submitted, results, tool, cli, running, files, temp, pc, task,
          rewrite_mutex, album, main, counters, commits, original, previous,
          text, comment_list, calls, id_header, analyzer, stream>>

\* No tool runs: the rewriter is driven directly
NoTool ==
    /\ tool = "none"
    /\ cli = <<>>
    /\ running = TRUE
    /\ files = <<>>
    /\ temp = {}
    /\ pc = <<>>
    /\ task = <<>>
    /\ rewrite_mutex = None
    /\ album = <<>>
    /\ main = "none"
    /\ counters = <<>>
    /\ commits = <<>>
    /\ original = <<>>
    /\ previous = None

\* No header and no analyzer of its own is driven
NoUnits ==
    /\ id_header = <<>>
    /\ analyzer = VolumeAnalyzer_new
    /\ stream = <<>>

\* No library call is made on its own
NoLibrary ==
    /\ text = <<>>
    /\ comment_list = <<>>
    /\ calls = <<>>
    /\ NoUnits

\* The rewriter as one value
rewriter ==
    [state |-> state, header_packet |-> header_packet,
     packet_queue |-> packet_queue, packet_writer |-> packet_writer]

\* HeaderRewriter::new with any of the transforms
Init ==
    /\ state = HeaderRewriter_new.state
    /\ header_packet = HeaderRewriter_new.header_packet
    /\ packet_queue = HeaderRewriter_new.packet_queue
    /\ packet_writer = HeaderRewriter_new.packet_writer
    /\ header_rewrite \in HeaderRewrites
    /\ submitted = <<>>
    /\ results = <<>>
    /\ NoTool
    /\ NoLibrary

\* A panic ("Missing header packet") ends the use of the rewriter
Panicked == results # <<>> /\ results[Len(results)].kind = "Panic"

\* One call of submit with any packet; the sink may fail any one write
Submit ==
    /\ Len(submitted) < MaxPackets
    /\ ~Panicked
    /\ \E packet \in PacketPool, fail_at \in 0..(Len(packet_queue) + 1) :
          LET r == submit(rewriter, header_rewrite, packet, fail_at) IN
          /\ state' = r.rw.state
          /\ header_packet' = r.rw.header_packet
          /\ packet_queue' = r.rw.packet_queue
          /\ packet_writer' = r.rw.packet_writer
          /\ submitted' = Append(submitted, packet)
          /\ results' = Append(results, r.result)
    /\ UNCHANGED header_rewrite
    /\ UNCHANGED tool_vars
    /\ UNCHANGED lib_vars

Next == Submit

Spec == Init /\ [][Next]_vars

\* ------------------------------------------------------------ the tools
\* opusgain processes its input files on a pool of worker threads, one task
\* per file; opuscomment processes one file.  Console output is left out.

\* The most worker threads of the pool
MaxThreads == 2

\* cli.input_files of opusgain, in command-line order
InputFiles == <<"a.opus", "b.opus">>

InputPaths == {InputFiles[i] : i \in 1..Len(InputFiles)}

\* The input file of opuscomment and the output_file it may be given
CommentInput == "a.opus"
CommentOutput == "out.opus"

Paths == InputPaths \cup {CommentOutput}

\* A stream normalised for the rg preset: its audio measures -23 LUFS, its
\* output gain is +5 dB and its track gain tag 0
PK_ID_RG == Pkt(IdHeader(2, 1280), 7, 0, TRUE, FALSE)
PK_TAGS_RG == Pkt(CommentPacketData(<<(<<KEY_T, <<97>>>>),
                                      (<<TAG_TRACK_GAIN, <<48>>>>)>>, <<>>), 7, 0, TRUE, FALSE)

\* Files: absent, empty, cut after the ID header, a plain stream, the
\* normalised stream, a stream that does not start with an ID header
F_ABSENT == None
F_EMPTY == Some(<<>>)
F_TRUNCATED == Some(<<PK_ID>>)
F_PLAIN == Some(<<PK_ID, PK_TAGS, PK_AUDIO, PK_AUDIO_LAST>>)
F_NORMALISED == Some(<<PK_ID_RG, PK_TAGS_RG, PK_AUDIO, PK_AUDIO_LAST>>)
F_NO_HEADER == Some(<<PK_AUDIO, PK_TAGS>>)

FilePool == {F_ABSENT, F_EMPTY, F_TRUNCATED, F_PLAIN, F_NORMALISED, F_NO_HEADER}

GainCli(album_flag, preset, output_gain_mode, dry_run, clear) ==
    [album |-> album_flag, preset |-> preset, output_gain_mode |-> output_gain_mode,
     dry_run |-> dry_run, clear |-> clear]

\* Command lines of opusgain (without input_files and num_threads)
GainClis ==
    {GainCli(FALSE, "rg", "Auto", FALSE, FALSE),
     GainCli(FALSE, "rg", "Auto", TRUE, FALSE),
     GainCli(FALSE, "r128", "Track", FALSE, TRUE),
     GainCli(TRUE, "rg", "Auto", FALSE, TRUE),
     GainCli(TRUE, "r128", "Auto", FALSE, FALSE),
     GainCli(TRUE, "rg", "Track", FALSE, FALSE),
     GainCli(FALSE, "original", "Auto", FALSE, FALSE),
     GainCli(FALSE, "no-change", "Track", FALSE, FALSE)}

\* main_impl, lines 249-258
gain_output_gain_mode(c) ==
    IF c.output_gain_mode = "Auto"
    THEN IF c.album THEN "Album" ELSE "Track"
    ELSE "Track"

\* main_impl, lines 259-273: the preset's target, NoChange when clearing
gain_volume_target(c) ==
    IF c.clear THEN [kind |-> "NoChange"]
    ELSE CASE c.preset = "rg" -> [kind |-> "LUFS", lufs |-> REPLAY_GAIN_LUFS]
           [] c.preset = "r128" -> [kind |-> "LUFS", lufs |-> R128_LUFS]
           [] c.preset = "original" -> [kind |-> "ZeroGain"]
           [] c.preset = "no-change" -> [kind |-> "NoChange"]

\* The album flag taken as given, clearing or not
gain_album_mode_ignoring_clear(c) == c.album

\* main_impl, lines 268-273: no album mode when clearing
gain_album_mode(c) == IF c.clear THEN FALSE ELSE c.album

\* main_impl, lines 316-321: the VolumeRewriterConfig of a file's task
rewriter_config(p) ==
    VolumeConfig(gain_volume_target(cli), gain_output_gain_mode(cli),
                 task[p].track_volume,
                 IF album.volume = None THEN None ELSE Some(album.volume[1].mean))

\* The locals of a task before it runs
NewTask ==
    [analyzer |-> VolumeAnalyzer_new, pos |-> 0, track_volume |-> None,
     st |-> rewrite_stream_start, rewrite_result |-> None, error |-> None]

\* Tasks a worker thread is running
InFlight == {p \in InputPaths : pc[p] \notin {"queued", "analyzed", "done", "failed", "panicked"}}

\* try_for_each and panic_fuse: no new task starts after an error or panic
Stopped == \E p \in InputPaths : pc[p] \in {"failed", "panicked"}

\* A task's closure returns Err(e)
Fail(p, e) ==
    /\ pc' = [pc EXCEPT ![p] = "failed"]
    /\ task' = [task EXCEPT ![p].error = Some(e)]

\* opusgain starts
GainInit ==
    /\ tool = "opusgain"
    /\ \E c \in GainClis, n \in 0..MaxThreads :
          cli = [album |-> c.album, preset |-> c.preset,
                 output_gain_mode |-> c.output_gain_mode, dry_run |-> c.dry_run,
                 clear |-> c.clear, num_threads |-> n, input_files |-> InputFiles]
    /\ running = TRUE
    /\ \E fa, fb \in FilePool :
          files = [p \in Paths |-> IF p = InputFiles[1] THEN fa
                                   ELSE IF p = InputFiles[2] THEN fb ELSE None]
    /\ temp = {}
    /\ pc = [p \in InputPaths |-> "queued"]
    /\ task = [p \in InputPaths |-> NewTask]
    /\ rewrite_mutex = None
    /\ album = [tracks |-> <<>>, analyzers |-> <<>>, volume |-> None]
    /\ main = "start"
    /\ counters = [num_processed |-> 0, num_already_normalized |-> 0]
    /\ commits = <<>>
    /\ original = files
    /\ previous = None

\* The index of a file among the analyses finished, not on the command line
Idx_by_completion(p) == Cardinality(DOMAIN album.analyzers) + 1

\* The index of an input file on the command line
Idx(p) == CHOOSE i \in 1..Len(InputFiles) : InputFiles[i] = p

\* main_impl going to the per-file tasks without the album analysis
GainBegin_skips_album ==
    /\ tool = "opusgain"
    /\ main = "start"
    /\ main' = IF cli.num_threads = 0 THEN "err" ELSE "rewrite"
    /\ UNCHANGED <<tool, cli, running, files, temp, pc, task, rewrite_mutex, album,
                   counters, commits, original, previous>>
    /\ UNCHANGED rewriter_vars
    /\ UNCHANGED lib_vars

\* main_impl, lines 232-285: the thread count is validated, then album
\* mode analyses every file before any is rewritten
GainBegin ==
    /\ tool = "opusgain"
    /\ main = "start"
    /\ main' = IF cli.num_threads = 0 THEN "err"
               ELSE IF gain_album_mode(cli) THEN "album" ELSE "rewrite"
    /\ UNCHANGED <<tool, cli, running, files, temp, pc, task, rewrite_mutex, album,
                   counters, commits, original, previous>>
    /\ UNCHANGED rewriter_vars
    /\ UNCHANGED lib_vars

\* The Ctrl-C handler clears the flag the CtrlCChecker reads
CtrlC ==
    /\ tool = "opusgain"
    /\ main \in {"start", "album", "rewrite"}
    /\ running
    /\ running' = FALSE
    /\ UNCHANGED <<tool, cli, files, temp, pc, task, rewrite_mutex, album, main,
                   counters, commits, original, previous>>
    /\ UNCHANGED rewriter_vars
    /\ UNCHANGED lib_vars

\* A worker thread takes a file: the closure of compute_album_volume (lines
\* 143-151) or of main_impl (lines 292-315) up to the first packet read
StartTask(p) ==
    /\ tool = "opusgain"
    /\ main \in {"album", "rewrite"}
    /\ pc[p] = "queued"
    /\ ~Stopped
    /\ Cardinality(InFlight) < cli.num_threads
    /\ IF main = "album" \/ (~cli.clear /\ album.volume = None)
       THEN IF files[p] = None
            THEN Fail(p, "FileOpenError")
            ELSE /\ pc' = [pc EXCEPT ![p] = "analyze"]
                 /\ task' = [task EXCEPT ![p] = NewTask]
       ELSE /\ pc' = [pc EXCEPT ![p] = "open"]
            /\ task' = [task EXCEPT ![p] =
                           [NewTask EXCEPT !.track_volume =
                               IF cli.clear THEN None
                               ELSE Some(album.volume[1].tracks[p])]]
    /\ UNCHANGED <<tool, cli, running, files, temp, rewrite_mutex, album, main,
                   counters, commits, original, previous>>
    /\ UNCHANGED rewriter_vars
    /\ UNCHANGED lib_vars

\* apply_volume_analysis, lines 74-91: one turn of the loop
Analyze(p) ==
    /\ tool = "opusgain"
    /\ pc[p] = "analyze"
    /\ LET t == task[p]
           packets == files[p][1]
       IN IF ~running
          THEN Fail(p, "Interrupted") /\ UNCHANGED album
          ELSE IF t.pos = Len(packets)
          THEN LET an == file_complete(t.analyzer)
                   lufs == last_track_lufs(an)
               IN IF lufs = None
                  THEN /\ pc' = [pc EXCEPT ![p] = "panicked"]
                       /\ task' = [task EXCEPT ![p].analyzer = an]
                       /\ UNCHANGED album
                  ELSE IF main = "album"
                  THEN /\ album' = [album EXCEPT
                                       !.tracks = (p :> lufs[1]) @@ @,
                                       !.analyzers = (Idx(p) :> an) @@ @]
                       /\ pc' = [pc EXCEPT ![p] = "analyzed"]
                       /\ task' = [task EXCEPT ![p].analyzer = an]
                  ELSE /\ task' = [task EXCEPT ![p].analyzer = an,
                                               ![p].track_volume = lufs]
                       /\ pc' = [pc EXCEPT ![p] = "open"]
                       /\ UNCHANGED album
          ELSE LET r == Analyzer_submit(t.analyzer, packets[t.pos + 1]) IN
               IF r.ok
               THEN /\ task' = [task EXCEPT ![p].analyzer = r.an, ![p].pos = @ + 1]
                    /\ UNCHANGED <<pc, album>>
               ELSE Fail(p, r.err) /\ UNCHANGED album
    /\ UNCHANGED <<tool, cli, running, files, temp, rewrite_mutex, main,
                   counters, commits, original, previous>>
    /\ UNCHANGED rewriter_vars
    /\ UNCHANGED lib_vars

\* compute_album_volume, lines 160-165: every file analysed, the album mean
\* is taken over the analyzers in command-line order
AlbumDone ==
    /\ tool = "opusgain"
    /\ main = "album"
    /\ \A p \in InputPaths : pc[p] = "analyzed"
    /\ album' = [album EXCEPT !.volume =
                    Some([mean |-> mean_lufs_across_multiple(
                                       [i \in 1..Len(InputFiles) |-> album.analyzers[i]]),
                          tracks |-> album.tracks])]
    /\ main' = "rewrite"
    /\ pc' = [p \in InputPaths |-> "queued"]
    /\ UNCHANGED <<tool, cli, running, files, temp, task, rewrite_mutex,
                   counters, commits, original, previous>>
    /\ UNCHANGED rewriter_vars
    /\ UNCHANGED lib_vars

\* main_impl, line 323: the input is opened for the rewrite
Open(p) ==
    /\ tool = "opusgain"
    /\ pc[p] = "open"
    /\ IF files[p] = None
       THEN Fail(p, "FileOpenError")
       ELSE pc' = [pc EXCEPT ![p] = "lock"] /\ UNCHANGED task
    /\ UNCHANGED <<tool, cli, running, files, temp, rewrite_mutex, album, main,
                   counters, commits, original, previous>>
    /\ UNCHANGED rewriter_vars
    /\ UNCHANGED lib_vars

\* Lock taking the guard without waiting for it
Lock_without_waiting(p) ==
    /\ tool = "opusgain"
    /\ pc[p] = "lock"
    /\ rewrite_mutex' = Some(p)
    /\ pc' = [pc EXCEPT ![p] = "check"]
    /\ UNCHANGED <<tool, cli, running, files, temp, task, album, main,
                   counters, commits, original, previous>>
    /\ UNCHANGED rewriter_vars
    /\ UNCHANGED lib_vars

\* main_impl, line 327: rewrite_mutex.lock()
Lock(p) ==
    /\ tool = "opusgain"
    /\ pc[p] = "lock"
    /\ rewrite_mutex = None
    /\ rewrite_mutex' = Some(p)
    /\ pc' = [pc EXCEPT ![p] = "check"]
    /\ UNCHANGED <<tool, cli, running, files, temp, task, album, main,
                   counters, commits, original, previous>>
    /\ UNCHANGED rewriter_vars
    /\ UNCHANGED lib_vars

\* Check going on to create the output whatever the flag says
Check_without_polling(p) ==
    /\ tool = "opusgain"
    /\ pc[p] = "check"
    /\ pc' = [pc EXCEPT ![p] = "create"]
    /\ UNCHANGED <<task, rewrite_mutex>>
    /\ UNCHANGED <<tool, cli, running, files, temp, album, main,
                   counters, commits, original, previous>>
    /\ UNCHANGED rewriter_vars
    /\ UNCHANGED lib_vars

\* main_impl, line 328: check_running; the error return drops the guard
Check(p) ==
    /\ tool = "opusgain"
    /\ pc[p] = "check"
    /\ IF running
       THEN pc' = [pc EXCEPT ![p] = "create"] /\ UNCHANGED <<task, rewrite_mutex>>
       ELSE Fail(p, "Interrupted") /\ rewrite_mutex' = None
    /\ UNCHANGED <<tool, cli, running, files, temp, album, main,
                   counters, commits, original, previous>>
    /\ UNCHANGED rewriter_vars
    /\ UNCHANGED lib_vars

\* OutputFile::new_target: a temporary file next to the target path
OutputFile_new_target(temps, path) == temps \cup {path}

\* OutputFile::commit: the temporary file is renamed over the target path
OutputFile_commit(fs, path, written) == [fs EXCEPT ![path] = Some(read_packets(written))]

\* Drop of an OutputFile: a temporary file not committed is removed
OutputFile_drop(temps, path) == temps \ {path}

\* main_impl, line 329: OutputFile::new_target_or_discard
Create(p) ==
    /\ tool = "opusgain"
    /\ pc[p] = "create"
    /\ \E created \in (IF cli.dry_run THEN {TRUE} ELSE BOOLEAN) :
          IF created
          THEN /\ temp' = IF cli.dry_run THEN temp ELSE OutputFile_new_target(temp, p)
               /\ pc' = [pc EXCEPT ![p] = "rewrite"]
               /\ task' = [task EXCEPT ![p].st = rewrite_stream_start]
               /\ UNCHANGED rewrite_mutex
          ELSE /\ Fail(p, "TempFileOpen")
               /\ rewrite_mutex' = None
               /\ UNCHANGED temp
    /\ UNCHANGED <<tool, cli, running, files, album, main, counters, commits, original, previous>>
    /\ UNCHANGED rewriter_vars
    /\ UNCHANGED lib_vars

\* The task of p after the turn t of its stream rewrite
Turned(p, t) ==
    IF t.done
    THEN /\ task' = [task EXCEPT ![p].st = t.st, ![p].rewrite_result = Some(t.value)]
         /\ pc' = [pc EXCEPT ![p] = "match"]
    ELSE /\ task' = [task EXCEPT ![p].st = t.st]
         /\ UNCHANGED pc

\* main_impl, lines 330-343: one turn of rewrite_stream_with_interrupt with
\* abort_on_unchanged set
Rewrite(p) ==
    /\ tool = "opusgain"
    /\ pc[p] = "rewrite"
    /\ \E write_fails \in (IF cli.dry_run THEN {FALSE} ELSE BOOLEAN) :
          Turned(p, rewrite_stream_turn(task[p].st, rewriter_config(p), files[p][1],
                                        TRUE, ~running, write_fails))
    /\ UNCHANGED <<tool, cli, running, files, temp, rewrite_mutex, album, main,
                   counters, commits, original, previous>>
    /\ UNCHANGED rewriter_vars
    /\ UNCHANGED lib_vars

\* The match arms committing on either header result
gain_commits_any_header_result(rewrite_result) == rewrite_result.kind \in HeaderKinds

\* main_impl, lines 347-377: the arm of the match that calls commit
gain_commits(rewrite_result) == rewrite_result.kind = "HeadersChanged"

\* A call of commit as the history records it
CommitCall(input, target, rewrite_result, ok) ==
    [input |-> input, target |-> target, result |-> rewrite_result.kind, ok |-> ok]

\* main_impl, lines 344-377: the match on rewrite_result.  An error return
\* drops the output file, then the guard.
Match(p) ==
    /\ tool = "opusgain"
    /\ pc[p] = "match"
    /\ LET r == task[p].rewrite_result[1]
           processed == [counters EXCEPT !.num_processed = @ + 1]
       IN IF r.kind \in {"Err", "Panic"}
          THEN /\ temp' = OutputFile_drop(temp, p)
               /\ rewrite_mutex' = None
               /\ Fail(p, r.err)
               /\ counters' = processed
               /\ UNCHANGED <<files, commits>>
          ELSE IF gain_commits(r)
          THEN \E committed \in (IF cli.dry_run THEN {TRUE} ELSE BOOLEAN) :
                  /\ commits' = Append(commits, CommitCall(p, p, r, committed))
                  /\ temp' = OutputFile_drop(temp, p)
                  /\ counters' = processed
                  /\ IF committed
                     THEN /\ files' = IF cli.dry_run THEN files
                                      ELSE OutputFile_commit(files, p,
                                                             task[p].st.rw.packet_writer)
                          /\ pc' = [pc EXCEPT ![p] = "unlock"]
                          /\ UNCHANGED <<task, rewrite_mutex>>
                     ELSE /\ Fail(p, "FileMove")
                          /\ rewrite_mutex' = None
                          /\ UNCHANGED files
          ELSE /\ counters' = IF r.kind = "HeadersUnchanged"
                              THEN [processed EXCEPT !.num_already_normalized = @ + 1]
                              ELSE processed
               /\ pc' = [pc EXCEPT ![p] = "unlock"]
               /\ UNCHANGED <<files, temp, task, rewrite_mutex, commits>>
    /\ UNCHANGED <<tool, cli, running, album, main, original, previous>>
    /\ UNCHANGED rewriter_vars
    /\ UNCHANGED lib_vars

\* main_impl, line 378: drop(rewrite_guard)
Unlock(p) ==
    /\ tool = "opusgain"
    /\ pc[p] = "unlock"
    /\ rewrite_mutex' = None
    /\ pc' = [pc EXCEPT ![p] = "unlocked"]
    /\ UNCHANGED <<tool, cli, running, files, temp, task, album, main,
                   counters, commits, original, previous>>
    /\ UNCHANGED rewriter_vars
    /\ UNCHANGED lib_vars

\* main_impl, line 379: the block ends and output_file is dropped
DropOutput(p) ==
    /\ tool = "opusgain"
    /\ pc[p] = "unlocked"
    /\ temp' = OutputFile_drop(temp, p)
    /\ pc' = [pc EXCEPT ![p] = "done"]
    /\ UNCHANGED <<tool, cli, running, files, task, rewrite_mutex, album, main,
                   counters, commits, original, previous>>
    /\ UNCHANGED rewriter_vars
    /\ UNCHANGED lib_vars

\* main_impl, lines 389-396 (and 158): the parallel loop returns once no
\* task runs; a panic is resumed, else the first error is returned
GainExit ==
    /\ tool = "opusgain"
    /\ main \in {"album", "rewrite"}
    /\ InFlight = {}
    /\ Stopped \/ (main = "rewrite" /\ \A p \in InputPaths : pc[p] = "done")
    /\ main' = IF \E p \in InputPaths : pc[p] = "panicked" THEN "panic"
               ELSE IF Stopped THEN "err" ELSE "ok"
    /\ UNCHANGED <<tool, cli, running, files, temp, pc, task, rewrite_mutex, album,
                   counters, commits, original, previous>>
    /\ UNCHANGED rewriter_vars
    /\ UNCHANGED lib_vars

\* opusgain is started again with the same command line on the files the
\* run before left, once that run has ended without error
GainAgain ==
    /\ tool = "opusgain"
    /\ main = "ok"
    /\ previous = None
    /\ previous' = Some([p \in InputPaths |-> task[p].rewrite_result])
    /\ running' = TRUE
    /\ pc' = [p \in InputPaths |-> "queued"]
    /\ task' = [p \in InputPaths |-> NewTask]
    /\ rewrite_mutex' = None
    /\ album' = [tracks |-> <<>>, analyzers |-> <<>>, volume |-> None]
    /\ main' = "start"
    /\ counters' = [num_processed |-> 0, num_already_normalized |-> 0]
    /\ commits' = <<>>
    /\ original' = files
    /\ UNCHANGED <<tool, cli, files, temp>>
    /\ UNCHANGED rewriter_vars
    /\ UNCHANGED lib_vars

\* opuscomment.rs, Cli: the conflicts_with attributes, enforced by the
\* argument parser before main_impl goes on
clap_conflict(c) ==
    \/ c.list /\ (c.write \/ c.append)
    \/ c.append /\ c.write
    \/ c.delete # <<>> /\ c.write

\* opuscomment.rs main_impl, lines 182-190: the operation mode
operation_mode(c) ==
    CASE ~c.append /\ ~c.write -> "List"
      [] ~c.list /\ c.append /\ ~c.write -> "Append"
      [] ~c.list /\ ~c.append /\ c.write -> "Replace"
      [] OTHER -> "Invalid"

\* parse_new_comment_args: the loop, result is the list built so far
RECURSIVE NewCommentArgs(_, _, _)
NewCommentArgs(comments, escaped, result) ==
    IF comments = <<>> THEN [ok |-> TRUE, list |-> result]
    ELSE LET kv == parse_comment(Head(comments)) IN
         IF ~kv.ok THEN [ok |-> FALSE, err |-> kv.err]
         ELSE LET value == IF escaped THEN unescape_str(kv.value)
                           ELSE [ok |-> TRUE, value |-> kv.value]
              IN IF ~value.ok THEN [ok |-> FALSE, err |-> value.err]
                 ELSE LET r == push(result, kv.key, value.value) IN
                      IF ~r.ok THEN [ok |-> FALSE, err |-> r.err]
                      ELSE NewCommentArgs(Tail(comments), escaped, r.list)

\* opuscomment.rs parse_new_comment_args
parse_new_comment_args(comments, escaped) == NewCommentArgs(comments, escaped, <<>>)

\* ValueMatch |= ValueMatch keeping the right-hand side only
ValueMatch_or_last_wins(lhs, rhs) == rhs

\* ValueMatch |= ValueMatch
ValueMatch_or(lhs, rhs) ==
    IF lhs.all \/ rhs.all THEN MatchAll ELSE MatchValues(lhs.values \cup rhs.values)

\* KeyValueMatch::add: entry(key).or_default() |= value
KeyValueMatch_add(keys, key, value) ==
    [k \in DOMAIN keys \cup {key} |->
        IF k # key THEN keys[k]
        ELSE IF key \in DOMAIN keys THEN ValueMatch_or(keys[key], value)
        ELSE ValueMatch_or(MatchValues({}), value)]

\* parse_delete_comment_args: the loop, result is the KeyValueMatch so far
RECURSIVE DeleteCommentArgs(_, _, _)
DeleteCommentArgs(patterns, escaped, result) ==
    IF patterns = <<>> THEN [ok |-> TRUE, keys |-> result]
    ELSE LET pattern_string == Head(patterns)
             kv == parse_comment(pattern_string)
         IN IF kv.ok
            THEN LET value == IF escaped THEN unescape_str(kv.value)
                              ELSE [ok |-> TRUE, value |-> kv.value]
                 IN IF ~value.ok THEN [ok |-> FALSE, err |-> value.err]
                    ELSE DeleteCommentArgs(Tail(patterns), escaped,
                             KeyValueMatch_add(result, kv.key, MatchValues({value.value})))
            ELSE IF validate_comment_field_name(pattern_string)
            THEN DeleteCommentArgs(Tail(patterns), escaped,
                                   KeyValueMatch_add(result, pattern_string, MatchAll))
            ELSE [ok |-> FALSE, err |-> "InvalidCommentFieldName"]

\* opuscomment.rs parse_delete_comment_args
parse_delete_comment_args(patterns, escaped) == DeleteCommentArgs(patterns, escaped, <<>>)

\* The action of list mode replacing the comments by the -t entries
comment_action_list_replaces(mode, append, delete_tags) ==
    CASE mode = "List" -> [kind |-> "Replace", tags |-> append]
      [] mode = "Append" -> [kind |-> "Modify", delete_tags |-> delete_tags, append |-> append]
      [] mode = "Replace" -> [kind |-> "Replace", tags |-> append]

\* opuscomment.rs main_impl, lines 199-206: the CommentRewriterAction
comment_action(mode, append, delete_tags) ==
    CASE mode = "List" -> [kind |-> "NoChange"]
      [] mode = "Append" -> [kind |-> "Modify", delete_tags |-> delete_tags, append |-> append]
      [] mode = "Replace" -> [kind |-> "Replace", tags |-> append]

\* opuscomment.rs main_impl, lines 230-247: the arm of the match that
\* calls commit
comment_commits(rewrite_result) == rewrite_result.kind = "HeadersChanged"

\* How main_impl ends: exit status, error, what the stream rewrite returned,
\* the file system it leaves and the calls of commit it made
MainEnd(exit, e, r, fs, commit_calls) ==
    [exit |-> exit, error |-> e, rewrite_result |-> r, files |-> fs,
     commits |-> commit_calls]

\* opuscomment.rs main_impl, lines 228-248: the match on what the stream
\* rewrite returned (rewritten: the loop state it left and its value)
comment_match(c, fs, mode, rewritten, committed) ==
    IF rewritten.value.kind \in {"Err", "Panic"}
    THEN MainEnd("err", Some(rewritten.value.err), Some(rewritten.value), fs, <<>>)
    ELSE IF ~comment_commits(rewritten.value)
    THEN MainEnd("ok", None, Some(rewritten.value), fs, <<>>)
    ELSE LET output_path == IF c.output_file = None THEN c.input_file
                            ELSE c.output_file[1]
         IN IF mode # "List" /\ ~committed
            THEN MainEnd("err", Some("FileMove"), Some(rewritten.value), fs,
                         <<CommitCall(c.input_file, output_path, rewritten.value, FALSE)>>)
            ELSE MainEnd("ok", None, Some(rewritten.value),
                         IF mode = "List" THEN fs
                         ELSE OutputFile_commit(fs, output_path,
                                                rewritten.st.rw.packet_writer),
                         <<CommitCall(c.input_file, output_path, rewritten.value, TRUE)>>)

\* opuscomment.rs main_impl, lines 192-227, once the mode and the -t and -d
\* arguments are known
comment_run(c, fs, mode, append, delete_tags, created, fail_pos, committed) ==
    IF ~append.ok THEN MainEnd("err", Some(append.err), None, fs, <<>>)
    ELSE IF ~delete_tags.ok THEN MainEnd("err", Some(delete_tags.err), None, fs, <<>>)
    ELSE IF fs[c.input_file] = None
    THEN MainEnd("err", Some("FileOpenError"), None, fs, <<>>)
    ELSE IF mode # "List" /\ ~created
    THEN MainEnd("err", Some("TempFileOpen"), None, fs, <<>>)
    ELSE comment_match(
             c, fs, mode,
             rewrite_stream(CommentAction(comment_action(mode, append.list,
                                                         delete_tags.keys)),
                            fs[c.input_file][1], TRUE, fail_pos),
             committed)

\* opuscomment.rs main_impl from the parsed command line to its return.
\* created, fail_pos and committed are what the file system does: whether
\* the temporary file can be created, which submit's write fails (0: none)
\* and whether the rename succeeds.
comment_main(c, fs, created, fail_pos, committed) ==
    IF operation_mode(c) = "Invalid"
    THEN MainEnd("err", Some("SilentExit"), None, fs, <<>>)
    ELSE comment_run(c, fs, operation_mode(c),
                     parse_new_comment_args(c.tags, c.escapes),
                     parse_delete_comment_args(c.delete, c.escapes),
                     created, fail_pos, committed)

\* -t arguments: none, G=j, one without '=', G=\n (backslash, 'n')
TagArgs ==
    {<<>>, <<(<<71, 61, 106>>)>>, <<(<<98, 97, 100>>)>>, <<(<<71, 61, 92, 110>>)>>}

\* -d arguments: none, T, A=b, T=x, and for the key T a bare pattern with a
\* value pattern and two value patterns, each pair in both orders
DeleteArgs ==
    {<<>>, <<KEY_T>>, <<(<<65, 61, 98>>)>>, <<(<<84, 61, 120>>)>>,
     <<(<<84, 61, 120>>), KEY_T>>, <<KEY_T, (<<84, 61, 120>>)>>,
     <<(<<84, 61, 120>>), (<<84, 61, 97>>)>>, <<(<<84, 61, 97>>), (<<84, 61, 120>>)>>}

\* How many packets a file holds
NumPackets(file) == IF file = None THEN 0 ELSE Len(file[1])

\* opuscomment starts
CommentInit ==
    /\ tool = "opuscomment"
    /\ \E l, a, w, e \in BOOLEAN, t \in TagArgs, d \in DeleteArgs,
          o \in {None, Some(CommentOutput)} :
          cli = [list |-> l, append |-> a, write |-> w, tags |-> t, delete |-> d,
                 escapes |-> e, input_file |-> CommentInput, output_file |-> o]
    /\ running = TRUE
    /\ \E f \in FilePool : files = [p \in Paths |-> IF p = CommentInput THEN f ELSE None]
    /\ temp = {}
    /\ pc = [p \in {CommentInput} |-> "queued"]
    /\ task = [p \in {CommentInput} |-> NewTask]
    /\ rewrite_mutex = None
    /\ album = <<>>
    /\ main = "start"
    /\ counters = <<>>
    /\ commits = <<>>
    /\ original = files
    /\ previous = None

\* main_impl of opuscomment returned r
CommentReturns(r) ==
    /\ main' = r.exit
    /\ files' = r.files
    /\ commits' = commits \o r.commits
    /\ pc' = [pc EXCEPT ![CommentInput] = IF r.exit = "ok" THEN "done" ELSE "failed"]
    /\ task' = [task EXCEPT ![CommentInput].rewrite_result = r.rewrite_result,
                            ![CommentInput].error = r.error]

\* main_impl taking the first mode flag set and rejecting no combination
CommentMain_any_flags ==
    /\ tool = "opuscomment"
    /\ main = "start"
    /\ \E created, committed \in BOOLEAN, fail_pos \in 0..NumPackets(files[CommentInput]) :
          CommentReturns(comment_run(cli, files,
                                     IF cli.write THEN "Replace"
                                     ELSE IF cli.append THEN "Append" ELSE "List",
                                     parse_new_comment_args(cli.tags, cli.escapes),
                                     parse_delete_comment_args(cli.delete, cli.escapes),
                                     created, fail_pos, committed))
    /\ UNCHANGED <<tool, cli, running, temp, rewrite_mutex, album, counters, original, previous>>
    /\ UNCHANGED rewriter_vars
    /\ UNCHANGED lib_vars

\* opuscomment.rs main_impl; the output file is dropped at its end, which
\* removes a temporary file that was not committed
CommentMain ==
    /\ tool = "opuscomment"
    /\ main = "start"
    /\ IF clap_conflict(cli)
       THEN /\ main' = "usage"
            /\ UNCHANGED <<files, pc, task, commits>>
       ELSE \E created, committed \in BOOLEAN, fail_pos \in 0..NumPackets(files[CommentInput]) :
               CommentReturns(comment_main(cli, files, created, fail_pos, committed))
    /\ UNCHANGED <<tool, cli, running, temp, rewrite_mutex, album, counters, original, previous>>
    /\ UNCHANGED rewriter_vars
    /\ UNCHANGED lib_vars

\* No rewriter is driven directly: each task owns its own
NoRewriter ==
    /\ state = HeaderRewriter_new.state
    /\ header_packet = HeaderRewriter_new.header_packet
    /\ packet_queue = HeaderRewriter_new.packet_queue
    /\ packet_writer = HeaderRewriter_new.packet_writer
    /\ header_rewrite = CommentAction([kind |-> "NoChange"])
    /\ submitted = <<>>
    /\ results = <<>>

ToolsInit == NoRewriter /\ NoLibrary /\ (GainInit \/ CommentInit)

ToolsNext ==
    \/ GainBegin
    \/ CtrlC
    \/ \E p \in InputPaths : StartTask(p)
    \/ \E p \in InputPaths : Analyze(p)
    \/ AlbumDone
    \/ \E p \in InputPaths : Open(p)
    \/ \E p \in InputPaths : Lock(p)
    \/ \E p \in InputPaths : Check(p)
    \/ \E p \in InputPaths : Create(p)
    \/ \E p \in InputPaths : Rewrite(p)
    \/ \E p \in InputPaths : Match(p)
    \/ \E p \in InputPaths : Unlock(p)
    \/ \E p \in InputPaths : DropOutput(p)
    \/ GainExit
    \/ GainAgain
    \/ CommentMain

\* A run of one of the two tools
Tools == ToolsInit /\ [][ToolsNext]_vars

\* ------------------------------------------------ the escaping functions
\* escape_str and unescape_str applied to strings, each call to the text
\* given or to the value the call before returned.

\* NUL, LF, CR, the backslash, '0', 'n', 'r' and 'a'
Alphabet == {0, 10, 13, ESCAPE_CHAR, 48, 110, 114, 97}

MaxText == 3
MaxCalls == 2

Strings == UNION {[1..n -> Alphabet] : n \in 0..MaxText}

\* A call as the history keeps it
Call(fn, arg, result) == [fn |-> fn, arg |-> arg, result |-> result]

\* The string the next call is given
NextArg == IF calls = <<>> THEN text ELSE calls[Len(calls)].result.value

\* A further call can be made: the last one returned a string
CanCall ==
    /\ Len(calls) < MaxCalls
    /\ IF calls = <<>> THEN TRUE
       ELSE IF calls[Len(calls)].fn = "escape_str" THEN TRUE
       ELSE calls[Len(calls)].result.ok

EscapingInit ==
    /\ NoRewriter
    /\ NoTool
    /\ text \in Strings
    /\ comment_list = <<>>
    /\ calls = <<>>
    /\ NoUnits

Escape ==
    /\ CanCall
    /\ calls' = Append(calls, Call("escape_str", NextArg, escape_str(NextArg)))
    /\ UNCHANGED <<text, comment_list>>
    /\ UNCHANGED unit_vars
    /\ UNCHANGED rewriter_vars
    /\ UNCHANGED tool_vars

Unescape ==
    /\ CanCall
    /\ calls' = Append(calls, Call("unescape_str", NextArg, unescape_str(NextArg)))
    /\ UNCHANGED <<text, comment_list>>
    /\ UNCHANGED unit_vars
    /\ UNCHANGED rewriter_vars
    /\ UNCHANGED tool_vars

EscapingNext == Escape \/ Unescape

Escaping == EscapingInit /\ [][EscapingNext]_vars

\* ------------------------------------------------------ comment lists
\* A DiscreteCommentList, empty when constructed, and the calls made on it;
\* calls holds the last call with the list before and after it.

KEY_Ab == <<65, 98>>
KEY_aB == <<97, 66>>
KEY_EMPTY == <<>>

\* Keys a caller may pass: four field names, two by two equal ignoring
\* case, and the empty string, which is none
KeyPool == {KEY_T, KEY_t, KEY_Ab, KEY_aB, KEY_EMPTY}

\* Values: "x" and "y"
ValuePool == {<<120>>, <<121>>}

MaxList == 3

ListCall(fn, key, value, before, after, result) ==
    [fn |-> fn, key |-> key, value |-> value, before |-> before, after |-> after,
     result |-> result]

\* DiscreteCommentList::default
CommentsInit ==
    /\ NoRewriter
    /\ NoTool
    /\ text = <<>>
    /\ comment_list = <<>>
    /\ calls = <<>>
    /\ NoUnits

\* The list after a call that returns a Result
Called(fn, key, value, r) ==
    /\ comment_list' = r.list
    /\ calls' = <<ListCall(fn, key, value, comment_list, r.list,
                           IF r.ok THEN [ok |-> TRUE] ELSE [ok |-> FALSE, err |-> r.err])>>

Push ==
    /\ tool = "none"
    /\ Len(comment_list) < MaxList
    /\ \E key \in KeyPool, value \in ValuePool :
          Called("push", key, value, push(comment_list, key, value))
    /\ UNCHANGED text
    /\ UNCHANGED unit_vars
    /\ UNCHANGED rewriter_vars
    /\ UNCHANGED tool_vars

Replace ==
    /\ tool = "none"
    /\ Len(comment_list) <= MaxList
    /\ \E key \in KeyPool, value \in ValuePool :
          /\ Len(replace(comment_list, key, value).list) <= MaxList
          /\ Called("replace", key, value, replace(comment_list, key, value))
    /\ UNCHANGED text
    /\ UNCHANGED unit_vars
    /\ UNCHANGED rewriter_vars
    /\ UNCHANGED tool_vars

RemoveAll ==
    /\ tool = "none"
    /\ \E key \in KeyPool :
          /\ comment_list' = remove_all(comment_list, key)
          /\ calls' = <<ListCall("remove_all", key, <<>>, comment_list,
                                 remove_all(comment_list, key), [ok |-> TRUE])>>
    /\ UNCHANGED text
    /\ UNCHANGED unit_vars
    /\ UNCHANGED rewriter_vars
    /\ UNCHANGED tool_vars

\* get_first takes &self
GetFirst ==
    /\ tool = "none"
    /\ \E key \in KeyPool :
          calls' = <<ListCall("get_first", key, <<>>, comment_list, comment_list,
                              get_first(comment_list, key))>>
    /\ UNCHANGED <<text, comment_list>>
    /\ UNCHANGED unit_vars
    /\ UNCHANGED rewriter_vars
    /\ UNCHANGED tool_vars

\* The actions a CommentHeaderRewrite may be configured with
CommentActions ==
    {[kind |-> "NoChange"],
     [kind |-> "Replace", tags |-> <<>>],
     [kind |-> "Replace", tags |-> <<(<<KEY_T, <<120>>>>)>>],
     [kind |-> "Replace", tags |-> <<(<<KEY_Ab, <<121>>>>), (<<KEY_t, <<120>>>>)>>],
     [kind |-> "Modify", delete_tags |-> (KEY_T :> MatchAll),
      append |-> <<(<<KEY_T, <<121>>>>)>>],
     [kind |-> "Modify", delete_tags |-> (KEY_Ab :> MatchValues({<<120>>})),
      append |-> <<>>],
     [kind |-> "Modify", delete_tags |-> <<>>, append |-> <<(<<KEY_aB, <<120>>>>)>>]}

\* The ID header and the vendor string of the streams the transform meets
HeaderPool == {<<IdHeader(2, 0), <<>>>>, <<IdHeader(1, 1280), <<122>>>>}

\* The transform returned r for that action and those headers
Transformed(action, opus_header, comment_header, r) ==
    /\ Len(r.comment.comments) <= MaxList
    /\ comment_list' = r.comment.comments
    /\ calls' = <<[fn |-> "rewrite", action |-> action, opus |-> opus_header,
                   header |-> comment_header, result |-> r]>>

\* CommentHeaderRewrite::rewrite on a comment header holding the list
Transform ==
    /\ tool = "none"
    /\ Len(comment_list) <= MaxList
    /\ \E action \in CommentActions, h \in HeaderPool :
          Transformed(action, h[1],
                      [vendor |-> h[2], comments |-> comment_list, tail |-> <<>>],
                      Comment_rewrite(action, h[1],
                                      [vendor |-> h[2], comments |-> comment_list,
                                       tail |-> <<>>]))
    /\ UNCHANGED text
    /\ UNCHANGED unit_vars
    /\ UNCHANGED rewriter_vars
    /\ UNCHANGED tool_vars

CommentsNext == Push \/ Replace \/ RemoveAll \/ GetFirst \/ Transform

Comments == CommentsInit /\ [][CommentsNext]_vars

\* ------------------------------------------------------ output gain
\* An OpusHeader in id_header and the adjustments made to its output gain;
\* calls holds them all, each with the header before it.

\* Output gains a file may carry, in Q7.8
GainPool == {-32768, -32767, -256, -1, 0, 1, 255, 32766, 32767}

\* Adjustments a caller may ask for, in Q7.8
AdjustPool == {-32768, -2, -1, 0, 1, 2, 32767}

MaxAdjust == 2

HeadersInit ==
    /\ NoRewriter
    /\ NoTool
    /\ text = <<>>
    /\ comment_list = <<>>
    /\ calls = <<>>
    /\ \E channels \in {1, 2}, gain \in GainPool : id_header = IdHeader(channels, gain)
    /\ analyzer = VolumeAnalyzer_new
    /\ stream = <<>>

\* header.adjust_output_gain(adjustment) with what it returned
Adjusted(adjustment, r) ==
    /\ id_header' = r.data
    /\ calls' = Append(calls, [fn |-> "adjust_output_gain", arg |-> adjustment,
                               before |-> id_header,
                               result |-> IF r.ok THEN "Ok" ELSE r.err])

Adjust ==
    /\ tool = "none"
    /\ id_header # <<>>
    /\ Len(calls) < MaxAdjust
    /\ \E adjustment \in AdjustPool :
          Adjusted(adjustment, adjust_output_gain(id_header, adjustment))
    /\ UNCHANGED <<text, comment_list, analyzer, stream>>
    /\ UNCHANGED rewriter_vars
    /\ UNCHANGED tool_vars

HeadersNext == Adjust

Headers == HeadersInit /\ [][HeadersNext]_vars

\* ------------------------------------------------------ loudness analysis
\* One VolumeAnalyzer measures streams one after the other, as
\* apply_volume_analysis feeds it: every packet read is submitted until one
\* fails, then file_complete is called.  A HeaderRewriter constructed for
\* the stream is given the same packets.  calls holds the calls made on the
\* analyzer, each with the analyzer before it.

PK_ID_MONO == Pkt(IdHeader(1, 0), 7, 0, TRUE, FALSE)
PK_ID_SURROUND == Pkt(IdHeader(3, 0), 7, 0, TRUE, FALSE)

\* Streams: mono, stereo, three channels, no packet at all, no comment header
S_MONO == <<PK_ID_MONO, PK_TAGS, PK_AUDIO>>
S_STEREO == <<PK_ID, PK_TAGS, PK_AUDIO_PAGE, PK_AUDIO_LAST>>
S_SURROUND == <<PK_ID_SURROUND, PK_TAGS, PK_AUDIO_LAST>>
S_EMPTY == <<>>
S_NO_TAGS == <<PK_ID, PK_AUDIO>>

StreamPool == {S_MONO, S_STEREO, S_SURROUND, S_EMPTY, S_NO_TAGS}

\* The most streams one analyzer is given
MaxFiles == 2

\* A stream opened for reading
Opened(packets) == [packets |-> packets, pos |-> 0, failed |-> FALSE]

\* The calls of file_complete made so far
Completions == SelectSeq(calls, LAMBDA c : c.fn = "file_complete")

\* The transforms the streams are rewritten with
AnalysisRewrites ==
    {CommentAction([kind |-> "NoChange"]),
     VolumeConfig([kind |-> "ZeroGain"], "Track", Some(R128_LUFS - 256), None)}

AnalysisInit ==
    /\ state = HeaderRewriter_new.state
    /\ header_packet = HeaderRewriter_new.header_packet
    /\ packet_queue = HeaderRewriter_new.packet_queue
    /\ packet_writer = HeaderRewriter_new.packet_writer
    /\ header_rewrite \in AnalysisRewrites
    /\ submitted = <<>>
    /\ results = <<>>
    /\ NoTool
    /\ text = <<>>
    /\ comment_list = <<>>
    /\ calls = <<>>
    /\ id_header = <<>>
    /\ analyzer = VolumeAnalyzer_new
    /\ \E packets \in StreamPool : stream = Opened(packets)

\* analyzer.submit(packet) on the next packet read; an error ends the reading
Measured(packet, r) ==
    /\ analyzer' = r.an
    /\ stream' = [stream EXCEPT !.pos = @ + 1, !.failed = ~r.ok]
    /\ calls' = Append(calls, [fn |-> "submit", packet |-> packet, before |-> analyzer,
                               ok |-> r.ok, err |-> r.err])

Measure ==
    /\ tool = "none"
    /\ stream # <<>>
    /\ ~stream.failed
    /\ stream.pos < Len(stream.packets)
    /\ Measured(stream.packets[stream.pos + 1],
                Analyzer_submit(analyzer, stream.packets[stream.pos + 1]))
    /\ UNCHANGED <<text, comment_list, id_header>>
    /\ UNCHANGED rewriter_vars
    /\ UNCHANGED tool_vars

\* analyzer.file_complete(), at the end of the stream, after a failed submit
\* or at any packet before; the next stream is opened with a new rewriter
FileComplete ==
    /\ tool = "none"
    /\ stream # <<>>
    /\ Len(Completions) < MaxFiles
    /\ analyzer' = file_complete(analyzer)
    /\ calls' = Append(calls, [fn |-> "file_complete", packets |-> stream.packets,
                               fed |-> stream.pos, before |-> analyzer])
    /\ \E packets \in StreamPool : stream' = Opened(packets)
    /\ state' = HeaderRewriter_new.state
    /\ header_packet' = HeaderRewriter_new.header_packet
    /\ packet_queue' = HeaderRewriter_new.packet_queue
    /\ packet_writer' = HeaderRewriter_new.packet_writer
    /\ submitted' = <<>>
    /\ results' = <<>>
    /\ UNCHANGED <<header_rewrite, text, comment_list, id_header>>
    /\ UNCHANGED tool_vars

\* rewriter.submit(packet) on the next packet of the same stream
Rewritten(packet, r) ==
    /\ state' = r.rw.state
    /\ header_packet' = r.rw.header_packet
    /\ packet_queue' = r.rw.packet_queue
    /\ packet_writer' = r.rw.packet_writer
    /\ submitted' = Append(submitted, packet)
    /\ results' = Append(results, r.result)

RewriterSubmit ==
    /\ tool = "none"
    /\ stream # <<>>
    /\ Len(submitted) < Len(stream.packets)
    /\ IF results = <<>> THEN TRUE
       ELSE results[Len(results)].kind \notin {"Err", "Panic"}
    /\ Rewritten(stream.packets[Len(submitted) + 1],
                 submit(rewriter, header_rewrite, stream.packets[Len(submitted) + 1], 0))
    /\ UNCHANGED <<header_rewrite, text, comment_list, calls>>
    /\ UNCHANGED unit_vars
    /\ UNCHANGED tool_vars

AnalysisNext == Measure \/ FileComplete \/ RewriterSubmit

Analysis == AnalysisInit /\ [][AnalysisNext]_vars

\* ------------------------------------------------ properties of submit

\* No submit so far failed (or panicked)
NoError == \A i \in 1..Len(results) : results[i].kind \notin {"Err", "Panic"}

\* No submit so far failed writing to the sink
NoWriteError ==
    \A i \in 1..Len(results) : results[i] # [kind |-> "Err", err |-> "WriteError"]

\* Both headers parsed and the transform succeeded: the second submit
\* returned a header result
HeadersDone == Len(results) >= 2 /\ results[2].kind \in HeaderKinds

\* The bytes of an ID header outside the output gain field
OutsideGain(data) == [i \in (1..Len(data)) \ {17, 18} |-> data[i]]

\* C1: for a stream of N >= 3 packets submitted with no error, the sink holds
\* exactly the N submitted packets in submission order: the ID header (its
\* bytes outside the gain field as submitted), the comment header (vendor
\* and framing tail as submitted), then packets 3..N with their serial,
\* granule position and data untouched.
C1_SinkIsSubmittedInOrder ==
    (Len(submitted) >= 3 /\ NoError) =>
        /\ Len(packet_writer) = Len(submitted)
        /\ \A i \in 1..Len(submitted) :
              /\ packet_writer[i].serial = submitted[i].stream_serial
              /\ packet_writer[i].absgp = submitted[i].absgp_page
              /\ i >= 3 => packet_writer[i].data = submitted[i].data
        /\ OutsideGain(packet_writer[1].data) = OutsideGain(submitted[1].data)
        /\ LET out == CommentHeader_try_parse(packet_writer[2].data)
               in == CommentHeader_try_parse(submitted[2].data)
           IN /\ out.kind = "Some"
              /\ out.header.vendor = in.header.vendor
              /\ out.header.tail = in.header.tail

\* C1 witness: four packets went through without error, the last two differ
C1_Witness ==
    /\ Len(submitted) = 4 /\ NoError
    /\ submitted[3] # submitted[4]
    /\ Len(packet_writer) = 4

C3_NothingWrittenAtHeaderResult ==
    (Len(results) = 2 /\ results[2].kind \in HeaderKinds) => packet_writer = <<>>

\* C3 witness: the second submit has returned HeadersUnchanged
C3_Witness == Len(results) = 2 /\ results[2].kind = "HeadersUnchanged"

\* C4: the second submit returns HeadersChanged{from, to}, from the summary
\* of the headers as submitted and to the summary of the rewritten headers,
\* exactly when the rewritten ID header bytes or the rewritten comment
\* header differ from the submitted ones, and HeadersUnchanged(from)
\* otherwise; the summaries play no part in the decision.
C4_ChangedIffHeadersDiffer ==
    (Len(results) = 2 /\ results[2].kind \in HeaderKinds) =>
        LET differ == \/ packet_queue[1].data # submitted[1].data
                      \/ packet_queue[2].data # submitted[2].data
            before == summarize(header_rewrite, submitted[1].data,
                                CommentHeader_try_parse(submitted[2].data).header).summary
            after == summarize(header_rewrite, packet_queue[1].data,
                               CommentHeader_try_parse(packet_queue[2].data).header).summary
        IN results[2] = IF differ
                        THEN [kind |-> "HeadersChanged", from |-> before, to |-> after]
                        ELSE [kind |-> "HeadersUnchanged", summary |-> before]

\* C4 witness: HeadersChanged was returned although both summaries are equal
\* (only the comment header's bytes differ)
C4_Witness ==
    /\ Len(results) = 2 /\ results[2].kind = "HeadersChanged"
    /\ results[2].from = results[2].to
    /\ packet_queue[1].data = submitted[1].data

C6_HeaderErrors ==
    /\ Len(results) >= 1 => results[1] = [kind |-> "Good"]
    /\ Len(results) >= 2 =>
          LET first == submitted[1].data
              second == submitted[2].data
              bad_first == \/ Len(first) < OPUS_MIN_HEADER_SIZE
                           \/ SubSeq(first, 1, 8) # OPUS_MAGIC
              bad_second == \/ Len(second) < 8
                            \/ SubSeq(second, 1, 8) # COMMENT_MAGIC
          IN /\ bad_first => results[2] = [kind |-> "Err", err |-> "MissingOpusStream"]
             /\ (~bad_first /\ bad_second) =>
                   results[2] = [kind |-> "Err", err |-> "MissingCommentHeader"]

\* C6 witness: a first packet of 18 bytes that starts with the magic and a
\* second packet without the OpusTags magic gave MissingOpusStream
C6_Witness ==
    /\ Len(results) >= 2
    /\ Len(submitted[1].data) = OPUS_MIN_HEADER_SIZE - 1
    /\ SubSeq(submitted[1].data, 1, 8) = OPUS_MAGIC
    /\ submitted[2] = PK_AUDIO
    /\ results[2] = [kind |-> "Err", err |-> "MissingOpusStream"]

\* C7: every packet a submit writes to the sink carries the stream serial and
\* granule position of the packet it was made from (the queued packets in
\* order, then the packet just submitted), with end info EndStream if that
\* packet is last in its stream, else EndPage if last in its page, else
\* NormalPacket.
C7_WrittenPacketFields ==
    [][\A i \in (Len(packet_writer) + 1)..Len(packet_writer') :
          LET from == (packet_queue \o <<submitted'[Len(submitted')]>>)[i - Len(packet_writer)]
          IN /\ packet_writer'[i].serial = from.stream_serial
             /\ packet_writer'[i].absgp = from.absgp_page
             /\ packet_writer'[i].info =
                   (IF from.last_in_stream THEN "EndStream"
                    ELSE IF from.last_in_page THEN "EndPage"
                    ELSE "NormalPacket")]_vars

\* C7 witness: a packet that is last in its page and in its stream was
\* written as EndStream, after a NormalPacket and an EndPage packet
C7_Witness ==
    \E i, j, k \in 1..Len(packet_writer) :
        /\ packet_writer[i].data = PK_AUDIO_LAST.data
        /\ packet_writer[i].info = "EndStream"
        /\ packet_writer[j].info = "NormalPacket"
        /\ packet_writer[k].info = "EndPage"

\* ------------------------------------------------ properties of the tools

\* What rewrite_stream returned for the input file p, once it has returned
Returned(p, kind) ==
    /\ p \in DOMAIN task
    /\ task[p].rewrite_result # None
    /\ task[p].rewrite_result[1].kind = kind

\* C8: in both tools commit is called for a file only when its stream
\* rewrite returned HeadersChanged, never after HeadersUnchanged, a final
\* Good or an error; and a file on disk differs from what it was when the
\* tool started only through a successful commit onto it.
C8_CommitOnlyOnHeadersChanged ==
    /\ \A i \in 1..Len(commits) :
          /\ commits[i].result = "HeadersChanged"
          /\ Returned(commits[i].input, "HeadersChanged")
    /\ \A p \in DOMAIN files :
          files[p] # original[p] =>
              \E i \in 1..Len(commits) : commits[i].target = p /\ commits[i].ok

\* opusgain ended well having committed a.opus, whose headers changed, and
\* having left b.opus, whose headers were unchanged, as it was
C8_Witness ==
    /\ tool = "opusgain"
    /\ main = "ok"
    /\ Len(commits) = 1
    /\ commits[1].input = "a.opus"
    /\ commits[1].ok
    /\ files["a.opus"] # original["a.opus"]
    /\ Returned("b.opus", "HeadersUnchanged")
    /\ files["b.opus"] = original["b.opus"]

\* The tasks of opusgain between the creation of the output file and the
\* end of the match on the rewrite result
Rewriting == {p \in DOMAIN pc : pc[p] \in {"create", "rewrite", "match"}}

\* C9: in opusgain at most one task at a time is between creating its
\* output file and the end of its commit, and that task holds the rewrite
\* mutex: every step of a run that creates an output file, advances a
\* stream rewrite or calls commit is taken by the holder of the mutex.
C9_RewriteUnderMutex ==
    /\ [](tool = "opusgain" =>
             /\ Cardinality(Rewriting) <= 1
             /\ \A p \in Rewriting : rewrite_mutex = Some(p))
    /\ [][(tool = "opusgain" /\ previous' = previous) =>
             \A p \in InputPaths :
                 (\/ p \in temp' /\ p \notin temp
                  \/ task'[p].st # task[p].st
                  \/ /\ Len(commits') > Len(commits)
                     /\ commits'[Len(commits')].input = p)
                 => rewrite_mutex = Some(p)]_vars

\* b.opus was committed and its task has released the mutex but not yet
\* returned; the task of a.opus holds the mutex and is about to commit
C9_Witness ==
    /\ tool = "opusgain"
    /\ Len(commits) = 1
    /\ commits[1].input = "b.opus"
    /\ pc["b.opus"] = "unlocked"
    /\ pc["a.opus"] = "match"
    /\ Returned("a.opus", "HeadersChanged")
    /\ "a.opus" \in temp
    /\ rewrite_mutex = Some("a.opus")

\* C10: at any instant at most one temporary output file exists across
\* the tasks of opusgain.
C10_AtMostOneTempFile == tool = "opusgain" => Cardinality(temp) <= 1

\* The task of p failed with Interrupted
Interrupted(p) == pc[p] = "failed" /\ task[p].error = Some("Interrupted")

\* C11: a task of opusgain that finds the interrupt flag set at its check
\* after taking the rewrite mutex fails with Interrupted, and that step
\* creates no output file, commits nothing, changes no file and frees the
\* mutex; a task in the analysis loop that takes a turn with the flag set
\* fails with Interrupted having submitted no further packet to its analyzer.
C11_InterruptObserved ==
    [][tool = "opusgain" =>
          \A p \in InputPaths :
              /\ (pc[p] = "check" /\ ~running /\ pc'[p] # "check") =>
                    /\ pc'[p] = "failed"
                    /\ task'[p].error = Some("Interrupted")
                    /\ temp' = temp
                    /\ commits' = commits
                    /\ files' = files
                    /\ rewrite_mutex = Some(p)
                    /\ rewrite_mutex' = None
              /\ (pc[p] = "analyze" /\ ~running /\ <<pc[p], task[p]>>' # <<pc[p], task[p]>>) =>
                    /\ pc'[p] = "failed"
                    /\ task'[p].error = Some("Interrupted")
                    /\ task'[p].analyzer = task[p].analyzer
                    /\ task'[p].pos = task[p].pos
                    /\ album' = album]_vars

\* Ctrl-C came while a.opus was part-way through its analysis and b.opus,
\* analysed, was on its way to the rewrite: both failed with Interrupted,
\* no output file exists and nothing was committed
C11_Witness ==
    /\ tool = "opusgain"
    /\ ~running
    /\ Interrupted("a.opus")
    /\ task["a.opus"].pos >= 1
    /\ task["a.opus"].pos < NumPackets(files["a.opus"])
    /\ task["a.opus"].track_volume = None
    /\ Interrupted("b.opus")
    /\ task["b.opus"].track_volume # None
    /\ task["b.opus"].st = rewrite_stream_start
    /\ temp = {}
    /\ commits = <<>>

\* The stream rewrite of p returned a header result in the run before
ReturnedBefore(p) ==
    /\ previous # None
    /\ previous[1][p] # None
    /\ previous[1][p][1].kind \in {"HeadersChanged", "HeadersUnchanged"}

\* C12: when opusgain, not in dry-run mode, is run a second time with the
\* same command line on the files its first run left, the stream rewrite of
\* every file whose headers the first run reached returns HeadersUnchanged
\* whenever it returns a header result, and the second run commits nothing.
C12_SecondPassUnchanged ==
    (tool = "opusgain" /\ previous # None /\ ~cli.dry_run) =>
        /\ commits = <<>>
        /\ \A p \in InputPaths :
              ReturnedBefore(p) => ~Returned(p, "HeadersChanged")

\* ------------------------------------- properties of the escaping functions

\* C13: for every string s, unescape_str applied to escape_str(s) succeeds
\* and returns s.
C13_UnescapeOfEscape ==
    \A i \in 1..(Len(calls) - 1) :
        (calls[i].fn = "escape_str" /\ calls[i + 1].fn = "unescape_str") =>
            /\ calls[i + 1].arg = calls[i].result.value
            /\ calls[i + 1].result.ok
            /\ calls[i + 1].result.value = calls[i].arg

\* A backslash, a line feed and a NUL, escaped to six characters and back
C13_Witness ==
    /\ text = <<ESCAPE_CHAR, 10, 0>>
    /\ Len(calls) = 2
    /\ calls[1].fn = "escape_str"
    /\ calls[1].result.value = <<92, 92, 92, 110, 92, 48>>
    /\ calls[2].fn = "unescape_str"
    /\ calls[2].result.value = text

\* C14 as stated: for every string t on which unescape_str succeeds,
\* escape_str applied to the unescaped string gives t again.
C14_EscapeOfUnescape ==
    \A i \in 1..(Len(calls) - 1) :
        (/\ calls[i].fn = "unescape_str"
         /\ calls[i].result.ok
         /\ calls[i + 1].fn = "escape_str") =>
            calls[i + 1].result.value = calls[i].arg

\* The string holds none of the characters escape_str never emits
NoRawControl(t) == \A j \in 1..Len(t) : t[j] \notin {0, 10, 13}

\* C14, amended: for every string t that holds no NUL, LF or CR and on
\* which unescape_str succeeds, escape_str applied to the unescaped string
\* gives t again.
C14_EscapeOfUnescapeMinimal ==
    \A i \in 1..(Len(calls) - 1) :
        (/\ calls[i].fn = "unescape_str"
         /\ calls[i].result.ok
         /\ NoRawControl(calls[i].arg)
         /\ calls[i + 1].fn = "escape_str") =>
            calls[i + 1].result.value = calls[i].arg

\* An escaped line feed and an 'a', decoded to two characters and escaped
\* to the three given
C14_Witness ==
    /\ text = <<ESCAPE_CHAR, 110, 97>>
    /\ Len(calls) = 2
    /\ calls[1].fn = "unescape_str"
    /\ calls[1].result.ok
    /\ calls[1].result.value = <<10, 97>>
    /\ calls[2].fn = "escape_str"
    /\ calls[2].result.value = text

\* The character that follows the backslash in the escape of c
EscapeCode(c) ==
    CASE c = 0 -> 48
      [] c = 10 -> 110
      [] c = 13 -> 114
      [] c = 92 -> 92

\* Where the output of escape_str for s[i] starts
EscapedAt(s, i) == i + Cardinality({j \in 1..(i - 1) : s[j] \in {0, 10, 13, 92}})

\* C15: the output of escape_str holds, for each character of its input in
\* order, either the two characters backslash and 0, n, r or backslash (for
\* NUL, LF, CR and backslash) or the character itself, and nothing else; an
\* input with none of the four is handed back borrowed and unchanged; the
\* output never holds NUL, LF or CR.
C15_EscapeShape ==
    \A i \in 1..Len(calls) :
        calls[i].fn = "escape_str" =>
            LET s == calls[i].arg
                out == calls[i].result.value
            IN /\ Len(out) = EscapedAt(s, Len(s) + 1) - 1
               /\ \A k \in 1..Len(s) :
                     IF s[k] \in {0, 10, 13, 92}
                     THEN /\ out[EscapedAt(s, k)] = 92
                          /\ out[EscapedAt(s, k) + 1] = EscapeCode(s[k])
                     ELSE out[EscapedAt(s, k)] = s[k]
               /\ (\A k \in 1..Len(s) : s[k] \notin {0, 10, 13, 92}) =>
                     (out = s /\ calls[i].result.cow = "Borrowed")
               /\ \A k \in 1..Len(out) : out[k] \notin {0, 10, 13}

\* 'a', a carriage return and a backslash escaped to five characters
C15_Witness ==
    /\ text = <<97, 13, ESCAPE_CHAR>>
    /\ calls # <<>>
    /\ calls[1].fn = "escape_str"
    /\ calls[1].result = [cow |-> "Owned", value |-> <<97, 92, 114, 92, 92>>]

\* The backslash at s[i] starts an escape: an even number of backslashes
\* stands right before it
StartsEscape(s, i) ==
    /\ s[i] = 92
    /\ LET run == CHOOSE k \in 0..(i - 1) :
                      /\ \A j \in (i - k)..(i - 1) : s[j] = 92
                      /\ (k = i - 1 \/ s[i - k - 1] # 92)
       IN run % 2 = 0

\* The escapes of s whose second character is none of 0, n, r, backslash
InvalidEscapes(s) ==
    {i \in 1..(Len(s) - 1) : StartsEscape(s, i) /\ s[i + 1] \notin {48, 110, 114, 92}}

\* C16: unescape_str fails with InvalidEscape(c) for the first escape,
\* from the left, whose backslash is followed by a character c other than
\* 0, n, r or backslash; with no such escape it fails with
\* TrailingBackslash when the input ends with a backslash that starts an
\* escape; it succeeds in every other case; an input without a backslash
\* is returned unchanged.
C16_UnescapeOutcome ==
    \A i \in 1..Len(calls) :
        calls[i].fn = "unescape_str" =>
            LET s == calls[i].arg
                r == calls[i].result
                first == CHOOSE k \in InvalidEscapes(s) :
                             \A m \in InvalidEscapes(s) : k <= m
            IN /\ IF InvalidEscapes(s) # {}
                  THEN r = [ok |-> FALSE, err |-> <<"InvalidEscape", s[first + 1]>>]
                  ELSE IF s # <<>> /\ StartsEscape(s, Len(s))
                  THEN r = [ok |-> FALSE, err |-> <<"TrailingBackslash">>]
                  ELSE r.ok
               /\ (\A k \in 1..Len(s) : s[k] # 92) => r = [ok |-> TRUE, value |-> s]

\* A backslash before 'a' and then a trailing backslash: the invalid escape
\* is reported
C16_Witness ==
    /\ text = <<ESCAPE_CHAR, 97, ESCAPE_CHAR>>
    /\ calls # <<>>
    /\ calls[1].fn = "unescape_str"
    /\ calls[1].result = [ok |-> FALSE, err |-> <<"InvalidEscape", 97>>]

\* ------------------------------------------- properties of comment lists

\* The other case of an ASCII letter
SwapCase(b) ==
    IF b >= 65 /\ b <= 90 THEN b + 32
    ELSE IF b >= 97 /\ b <= 122 THEN b - 32
    ELSE b

\* Two keys are equal ignoring ASCII case
SameKey(a, b) ==
    /\ Len(a) = Len(b)
    /\ \A i \in 1..Len(a) : a[i] = b[i] \/ a[i] = SwapCase(b[i])

\* The entries of a list whose key is not k ignoring case, in order
Others(l, k) == LET Other(e) == ~SameKey(e[1], k) IN SelectSeq(l, Other)

\* What C17 says of the list l a replace(k, v) left, given the list before
ReplacedIn(before, l, k, v) ==
    /\ get_first(l, k) = Some(v)
    /\ Cardinality({i \in 1..Len(l) : SameKey(l[i][1], k)}) = 1
    /\ Others(l, k) = Others(before, k)

\* C17 as stated: after replace(k, v), for any list and any key k,
\* get_first(k) returns v, exactly one entry has a key equal to k ignoring
\* ASCII case, and the other entries keep their values and their order.
C17_ReplaceAnyKey ==
    \A i \in 1..Len(calls) :
        calls[i].fn = "replace" =>
            ReplacedIn(calls[i].before, calls[i].after, calls[i].key, calls[i].value)

\* C17, amended: after replace(k, v) has returned Ok, get_first(k) returns
\* v, exactly one entry has a key equal to k ignoring ASCII case, and the
\* other entries keep their values and their order.
C17_ReplaceOk ==
    \A i \in 1..Len(calls) :
        (calls[i].fn = "replace" /\ calls[i].result.ok) =>
            ReplacedIn(calls[i].before, calls[i].after, calls[i].key, calls[i].value)

\* replace("t", "y") on T=x, Ab=x, t=x leaves T=y, Ab=x
C17_Witness ==
    /\ calls # <<>>
    /\ calls[1].fn = "replace"
    /\ calls[1].key = KEY_t
    /\ calls[1].before = <<(<<KEY_T, <<120>>>>), (<<KEY_Ab, <<120>>>>), (<<KEY_t, <<120>>>>)>>
    /\ comment_list = <<(<<KEY_T, <<121>>>>), (<<KEY_Ab, <<120>>>>)>>

\* The strings that differ from k in the case of letters only
CaseVariants(k) ==
    {s \in [1..Len(k) -> {k[i] : i \in 1..Len(k)} \cup {SwapCase(k[i]) : i \in 1..Len(k)}] :
        SameKey(s, k)}

\* C18: get_first(k) returns the value of the first entry, in insertion
\* order, whose key equals k ignoring ASCII case, and nothing when no entry
\* matches; every case variant of k gives the same result; the list is
\* not changed.
C18_GetFirst ==
    \A i \in 1..Len(calls) :
        calls[i].fn = "get_first" =>
            LET l == calls[i].before
                k == calls[i].key
                r == calls[i].result
                hits == {j \in 1..Len(l) : SameKey(l[j][1], k)}
            IN /\ (r = None) <=> (hits = {})
               /\ r # None =>
                     \E j \in hits : /\ r = Some(l[j][2])
                                     /\ \A m \in hits : j <= m
               /\ \A v \in CaseVariants(k) : get_first(l, v) = r
               /\ calls[i].after = l
               /\ comment_list = l

\* get_first("aB") on Ab=x, aB=y returns x
C18_Witness ==
    /\ comment_list = <<(<<KEY_Ab, <<120>>>>), (<<KEY_aB, <<121>>>>)>>
    /\ calls # <<>>
    /\ calls[1].fn = "get_first"
    /\ calls[1].key = KEY_aB
    /\ calls[1].result = Some(<<120>>)

\* ------------------------------------- properties of the comment transform

\* C19: after rewrite with action Replace(list) the comment header holds
\* exactly the entries of list in list order, whatever it held before; its
\* vendor string and every byte of the ID header are as they were.
C19_ReplaceAction ==
    \A i \in 1..Len(calls) :
        (calls[i].fn = "rewrite" /\ calls[i].action.kind = "Replace") =>
            /\ calls[i].result.ok
            /\ calls[i].result.comment.comments = calls[i].action.tags
            /\ comment_list = calls[i].action.tags
            /\ calls[i].result.comment.vendor = calls[i].header.vendor
            /\ calls[i].result.opus = calls[i].opus

\* Replace(Ab=y, t=x) on a header holding T=x, aB=y and vendor "z"
C19_Witness ==
    /\ calls # <<>>
    /\ calls[1].fn = "rewrite"
    /\ calls[1].action.kind = "Replace"
    /\ calls[1].header = [vendor |-> <<122>>,
                          comments |-> <<(<<KEY_T, <<120>>>>), (<<KEY_aB, <<121>>>>)>>,
                          tail |-> <<>>]
    /\ comment_list = <<(<<KEY_Ab, <<121>>>>), (<<KEY_t, <<120>>>>)>>
    /\ calls[1].result.opus = IdHeader(1, 1280)

\* The entries of l that the retain closure of opuscomment keeps
Retained(l, delete_tags) ==
    {j \in 1..Len(l) : ~KeyValueMatch_matches(delete_tags, l[j][1], l[j][2])}

\* C20: after rewrite with action Modify{retain, append} the comment header
\* holds the original entries for which retain returned true, in their
\* original order, followed by the entries of append in order; an appended
\* entry is present even when a delete pattern matches it.
C20_ModifyAction ==
    \A i \in 1..Len(calls) :
        (calls[i].fn = "rewrite" /\ calls[i].action.kind = "Modify") =>
            LET b == calls[i].header.comments
                a == calls[i].result.comment.comments
                ap == calls[i].action.append
                K == Retained(b, calls[i].action.delete_tags)
            IN /\ calls[i].result.ok
               /\ Len(a) = Cardinality(K) + Len(ap)
               /\ \A j \in K : a[Cardinality({m \in K : m <= j})] = b[j]
               /\ \A j \in 1..Len(ap) : a[Cardinality(K) + j] = ap[j]
               /\ comment_list = a

\* Modify deleting every T and appending T=y, on T=x, Ab=x: Ab=x, T=y
C20_Witness ==
    /\ calls # <<>>
    /\ calls[1].fn = "rewrite"
    /\ calls[1].action = [kind |-> "Modify", delete_tags |-> (KEY_T :> MatchAll),
                          append |-> <<(<<KEY_T, <<121>>>>)>>]
    /\ calls[1].header.comments = <<(<<KEY_T, <<120>>>>), (<<KEY_Ab, <<120>>>>)>>
    /\ comment_list = <<(<<KEY_Ab, <<120>>>>), (<<KEY_T, <<121>>>>)>>

\* ------------------------------------------- properties of opuscomment

\* The comment lists a header result reports: before and after the transform
ListBefore(r) == IF r.kind = "HeadersChanged" THEN r.from ELSE r.summary

ListAfter(r) == IF r.kind = "HeadersChanged" THEN r.to ELSE r.summary

\* A -d pattern matches the entry e: a bare KEY by the key ignoring ASCII
\* case, KEY=VALUE by the key ignoring case and the value exactly
PatternMatches(pattern, escaped, e) ==
    IF IndexOf(pattern, 61) = 0
    THEN SameKey(pattern, e[1])
    ELSE /\ SameKey(SubSeq(pattern, 1, IndexOf(pattern, 61) - 1), e[1])
         /\ e[2] = IF escaped
                   THEN unescape_str(SubSeq(pattern, IndexOf(pattern, 61) + 1,
                                            Len(pattern))).value
                   ELSE SubSeq(pattern, IndexOf(pattern, 61) + 1, Len(pattern))

\* The entries of l that no -d pattern of the command line matches
Undeleted(l, patterns, escaped) ==
    LET Kept(e) == ~\E i \in 1..Len(patterns) : PatternMatches(patterns[i], escaped, e)
    IN SelectSeq(l, Kept)

\* C21: in append mode of opuscomment an entry of the header is deleted if
\* and only if some -d pattern matches it, a bare KEY matching by key
\* ignoring ASCII case and KEY=VALUE by key ignoring case and exact value:
\* the header after the rewrite holds the unmatched entries, in order,
\* followed by the -t entries.
C21_DeleteIffPatternMatches ==
    (/\ tool = "opuscomment"
     /\ main # "start"
     /\ ~clap_conflict(cli)
     /\ operation_mode(cli) = "Append"
     /\ task[CommentInput].rewrite_result # None
     /\ task[CommentInput].rewrite_result[1].kind \in HeaderKinds) =>
        ListAfter(task[CommentInput].rewrite_result[1]) =
            Undeleted(ListBefore(task[CommentInput].rewrite_result[1]),
                      cli.delete, cli.escapes)
            \o parse_new_comment_args(cli.tags, cli.escapes).list

\* opuscomment runs in list mode and has returned
Listed ==
    /\ tool = "opuscomment"
    /\ main \notin {"start", "usage"}
    /\ operation_mode(cli) = "List"

\* The queue q holds two packets with the bytes of the first two of packets
HeadersQueuedAsRead(packets, q) ==
    /\ Len(q) = 2
    /\ q[1].data = packets[1].data
    /\ q[2].data = packets[2].data

\* C22: in list mode of opuscomment (action NoChange) the stream rewrite
\* never returns HeadersChanged; when it returns a header result that is
\* HeadersUnchanged with the comments of the input, and a rewrite of the
\* input with NoChange queues the two header packets with the bytes they
\* had; no commit is called and no file differs from what it was when the
\* tool started.
C22_ListChangesNothing ==
    Listed =>
        /\ commits = <<>>
        /\ files = original
        /\ ~Returned(CommentInput, "HeadersChanged")
        /\ Returned(CommentInput, "HeadersUnchanged") =>
              /\ task[CommentInput].rewrite_result[1].summary =
                     to_discrete_comment_list(
                         CommentHeader_try_parse(files[CommentInput][1][2].data).header)
              /\ HeadersQueuedAsRead(
                     files[CommentInput][1],
                     rewrite_stream(CommentAction([kind |-> "NoChange"]),
                                    files[CommentInput][1], TRUE, 0).st.rw.packet_queue)

\* opuscomment -l -t G=j on the plain stream: its three comments are
\* reported, the file is as it was
C22_Witness ==
    /\ Listed
    /\ cli.tags # <<>>
    /\ main = "ok"
    /\ files[CommentInput] = F_PLAIN
    /\ Returned(CommentInput, "HeadersUnchanged")
    /\ Len(task[CommentInput].rewrite_result[1].summary) = 3

\* How many of the mode flags list, append, write the command line sets
ModeFlags(c) ==
    (IF c.list THEN 1 ELSE 0) + (IF c.append THEN 1 ELSE 0) + (IF c.write THEN 1 ELSE 0)

\* opuscomment ended on its command line: the usage error of the argument
\* parser or the silent exit of main_impl, with no file opened or changed
Rejected ==
    /\ main = "usage" \/ (main = "err" /\ task[CommentInput].error = Some("SilentExit"))
    /\ task[CommentInput].rewrite_result = None
    /\ commits = <<>>
    /\ files = original

\* C23 as stated: opuscomment performs an operation only when exactly one
\* of list, append, write is given; every other combination, none of them
\* included, is rejected before any file is opened.
C23_ExactlyOneMode ==
    (tool = "opuscomment" /\ main # "start" /\ ModeFlags(cli) # 1) => Rejected

\* C23, amended: every combination of two or three of the flags list,
\* append, write is rejected before any file is opened; with none of them
\* the tool is not rejected for its mode and runs as in list mode, calling
\* no commit and changing no file.
C23_AtMostOneMode ==
    (tool = "opuscomment" /\ main # "start") =>
        /\ ModeFlags(cli) >= 2 => Rejected
        /\ ModeFlags(cli) = 0 =>
              /\ main # "usage"
              /\ task[CommentInput].error # Some("SilentExit")
              /\ commits = <<>>
              /\ files = original

\* -l together with -a on the plain stream: rejected, nothing read
C23_Witness ==
    /\ tool = "opuscomment"
    /\ cli.list /\ cli.append /\ ~cli.write
    /\ files[CommentInput] = F_PLAIN
    /\ Rejected

\* No mode flag on the plain stream: its comments are listed
C23_NoFlagLists ==
    /\ tool = "opuscomment"
    /\ ModeFlags(cli) = 0
    /\ main = "ok"
    /\ Returned(CommentInput, "HeadersUnchanged")

\* ---------------------------------------------- properties of opusgain

\* No loudness analysis has touched the task of p
NotAnalysed(p) ==
    /\ pc[p] # "analyze"
    /\ task[p].analyzer = VolumeAnalyzer_new
    /\ task[p].pos = 0

\* C24: with clear set, whatever the preset, album flag and output gain
\* mode, every file's rewrite is configured with target NoChange, no track
\* volume and no album volume, and no loudness analysis runs on any file.
C24_ClearSkipsAnalysis ==
    (tool = "opusgain" /\ cli.clear) =>
        /\ main # "album"
        /\ album = [tracks |-> <<>>, analyzers |-> <<>>, volume |-> None]
        /\ \A p \in InputPaths :
              /\ NotAnalysed(p)
              /\ rewriter_config(p).config.output_gain = [kind |-> "NoChange"]
              /\ rewriter_config(p).config.track_volume = None
              /\ rewriter_config(p).config.album_volume = None

\* Clearing with the album flag and the ReplayGain preset: both files were
\* rewritten, the normalised one losing its tags
C24_Witness ==
    /\ tool = "opusgain"
    /\ cli.clear /\ cli.album /\ cli.preset = "rg"
    /\ main = "ok"
    /\ \A p \in InputPaths : pc[p] = "done" /\ task[p].rewrite_result # None
    /\ \E p \in InputPaths : original[p] = F_NORMALISED /\ Returned(p, "HeadersChanged")

\* ------------------------------------------ properties of the ID header

\* The header a call of adjust_output_gain left
HeaderAfter(i) == IF i = Len(calls) THEN id_header ELSE calls[i + 1].before

\* Two headers equal outside the two bytes of the output gain
SameButGain(a, b) ==
    /\ Len(a) = Len(b)
    /\ \A j \in 1..Len(a) : j \notin {17, 18} => a[j] = b[j]

\* C25: adjust_output_gain(a) sets the output gain to old + a when the sum
\* fits a signed 16-bit integer and touches no other byte; otherwise it
\* fails with GainOutOfBounds and leaves every byte of the header as it
\* was.  The sum never wraps around.
C25_AdjustChecked ==
    \A i \in 1..Len(calls) :
        calls[i].fn = "adjust_output_gain" =>
            LET old == get_output_gain(calls[i].before)
                sum == old + calls[i].arg
            IN IF sum >= -32768 /\ sum <= 32767
               THEN /\ calls[i].result = "Ok"
                    /\ get_output_gain(HeaderAfter(i)) = sum
                    /\ SameButGain(calls[i].before, HeaderAfter(i))
               ELSE /\ calls[i].result = "GainOutOfBounds"
                    /\ HeaderAfter(i) = calls[i].before

\* Gain 32767 adjusted by 1 fails, after an adjustment that succeeded
C25_Witness ==
    /\ Len(calls) = 2
    /\ calls[1].fn = "adjust_output_gain"
    /\ calls[1].result = "Ok"
    /\ calls[1].arg = 1
    /\ get_output_gain(calls[1].before) = 32766
    /\ get_output_gain(calls[2].before) = 32767
    /\ calls[2].arg = 1
    /\ calls[2].result = "GainOutOfBounds"
    /\ get_output_gain(id_header) = 32767

\* ------------------------------------------ properties of the analyzer

\* The analyzer a call left
AnalyzerAfter(i) == IF i = Len(calls) THEN analyzer ELSE calls[i + 1].before

\* The call i is the first submit of a stream, with an ID header
FirstSubmit(i) ==
    /\ calls[i].fn = "submit"
    /\ calls[i].before.state = "AwaitingHeader"
    /\ OpusHeader_try_parse(calls[i].packet.data) # None

\* The channel count in the ID header the call i submitted
Channels(i) == calls[i].packet.data[10]

\* The rewriter took every packet of the stream without an error
RewrittenWithoutError ==
    /\ Len(results) = Len(stream.packets)
    /\ \A j \in 1..Len(results) : results[j].kind \notin {"Err", "Panic"}

\* C26: an ID header whose channel count n is not 1 or 2 makes the
\* analyzer's first submit fail with InvalidChannelCount(n) and leaves the
\* analyzer in AwaitingHeader with no decoder state, while the rewriter
\* takes the same header and every packet of the stream without an error.
C26_ChannelCount ==
    /\ \A i \in 1..Len(calls) :
          (FirstSubmit(i) /\ Channels(i) \notin {1, 2}) =>
              /\ ~calls[i].ok
              /\ calls[i].err = <<"InvalidChannelCount", Channels(i)>>
              /\ AnalyzerAfter(i).state = "AwaitingHeader"
              /\ AnalyzerAfter(i).decode_state = None
              /\ AnalyzerAfter(i) = calls[i].before
    /\ (stream # <<>> /\ stream.packets = S_SURROUND) =>
          \A j \in 1..Len(results) : results[j].kind \notin {"Err", "Panic"}

\* The three-channel stream failed the analyzer's first submit after another
\* stream was measured, and went through the rewriter, which changed it
C26_Witness ==
    /\ Len(calls) > 1
    /\ FirstSubmit(Len(calls))
    /\ Channels(Len(calls)) = 3
    /\ ~calls[Len(calls)].ok
    /\ calls[Len(calls)].err = <<"InvalidChannelCount", 3>>
    /\ analyzer.track_loudness # <<>>
    /\ stream.packets = S_SURROUND
    /\ RewrittenWithoutError
    /\ results[2].kind = "HeadersChanged"

\* The last call of file_complete before the call i, 0 when there is none
LastCompletion(i) ==
    LET C == {j \in 1..(i - 1) : calls[j].fn = "file_complete"}
    IN IF C = {} THEN 0 ELSE CHOOSE j \in C : \A k \in C : k <= j

\* The state in which a stream's k-th packet is submitted
StateAt(k) ==
    IF k = 1 THEN "AwaitingHeader" ELSE IF k = 2 THEN "AwaitingComments" ELSE "Analyzing"

\* C27: file_complete leaves the analyzer in AwaitingHeader with no decoder
\* state, whatever state it was in; the packet submitted next is taken as
\* the ID header of a new stream, and every stream moves the analyzer
\* through AwaitingHeader, AwaitingComments and Analyzing.
C27_FileCompleteResets ==
    \A i \in 1..Len(calls) :
        IF calls[i].fn = "file_complete"
        THEN /\ AnalyzerAfter(i).state = "AwaitingHeader"
             /\ AnalyzerAfter(i).decode_state = None
        ELSE /\ calls[i].before.state = StateAt(i - LastCompletion(i))
             /\ calls[i].ok => AnalyzerAfter(i).state = StateAt(i - LastCompletion(i) + 1)
             /\ (i - LastCompletion(i) = 1) =>
                   (calls[i].ok <=>
                       /\ OpusHeader_try_parse(calls[i].packet.data) # None
                       /\ Channels(i) \in {1, 2})

\* file_complete was called in AwaitingComments and in Analyzing, and the
\* third stream has brought the analyzer to Analyzing again
C27_Witness ==
    /\ Len(Completions) = 2
    /\ Completions[1].before.state = "AwaitingComments"
    /\ Completions[2].before.state = "Analyzing"
    /\ analyzer.state = "Analyzing"
    /\ analyzer.decode_state # None
    /\ stream.pos = 3

\* The 100 ms windows of the stream the completion c ended: one per audio
\* packet the analyzer was given, the channels' powers summed and scaled
FileWindows(c) ==
    IF c.fed < 3 THEN <<>>
    ELSE LET n == c.packets[1].data[10] IN
         [i \in 1..(c.fed - 2) |->
             n * c.packets[i + 2].data[1] * (IF n = 1 THEN 2 ELSE 1)]

\* The windows of the first k completed streams, in completion order
RECURSIVE WindowsOf(_)
WindowsOf(k) ==
    IF k = 0 THEN <<>> ELSE WindowsOf(k - 1) \o FileWindows(Completions[k])

\* C28: after k files have been completed the accumulated windows are
\* those k files' windows in completion order, and the list of track
\* loudness values has one entry per completed file, in that order.
C28_WindowsAndTracks ==
    /\ analyzer.windows = WindowsOf(Len(Completions))
    /\ Len(analyzer.track_loudness) = Len(Completions)
    /\ \A k \in 1..Len(Completions) :
          k <= Len(analyzer.track_loudness) =>
              analyzer.track_loudness[k] = gated_mean_to_lufs(FileWindows(Completions[k]))

\* The same, the track loudness counted per completed stream whose ID
\* header the analyzer accepted
Accepted == SelectSeq(Completions, LAMBDA c : c.before.decode_state # None)

C28_WindowsAndAcceptedTracks ==
    /\ analyzer.windows = WindowsOf(Len(Completions))
    /\ Len(analyzer.track_loudness) = Len(Accepted)
    /\ \A k \in 1..Len(Accepted) :
          analyzer.track_loudness[k] = gated_mean_to_lufs(FileWindows(Accepted[k]))

\* ---------------------------------------- properties of a failed submit

\* The errors the second submit of these two packets may return: a header
\* that is missing or malformed, else what the transform returned
SecondSubmitErrors(hr, first, second) ==
    LET opus == OpusHeader_try_parse(first.data)
        parsed == CommentHeader_try_parse(second.data)
    IN IF opus = None THEN {"MissingOpusStream"}
       ELSE IF parsed.kind = "None" THEN {"MissingCommentHeader"}
       ELSE IF parsed.kind = "Err" THEN {parsed.err}
       ELSE {r.err : r \in {t \in {summarize(hr, opus[1], parsed.header),
                                   rewrite(hr, opus[1], parsed.header)} : ~t.ok}}

\* C29: when the second submit fails, for a missing or malformed header or
\* for an error of the transform's summarize or rewrite, no packet has been
\* written to the sink, none is in the emission queue, and the error
\* returned is the one that arose.
C29_FailedSubmitWritesNothing ==
    (tool = "none" /\ Len(results) >= 2 /\ results[2].kind = "Err") =>
        /\ packet_writer = <<>>
        /\ packet_queue = <<>>
        /\ results[2].err \in SecondSubmitErrors(header_rewrite, submitted[1], submitted[2])

\* The transform's rewrite failed with GainOutOfBounds on the loud header
C29_Witness ==
    /\ tool = "none"
    /\ Len(results) = 2
    /\ results[2] = [kind |-> "Err", err |-> "GainOutOfBounds"]
    /\ submitted[1] = PK_ID_LOUD
    /\ packet_writer = <<>>
    /\ packet_queue = <<>>

\* ------------------------------------------ properties of a Modify action

\* The rewriter was given a Modify action that appends, and its second
\* submit returned a header result
ModifyAppended ==
    /\ tool = "none"
    /\ stream = <<>>
    /\ header_rewrite.kind = "Comment"
    /\ header_rewrite.action.kind = "Modify"
    /\ header_rewrite.action.append # <<>>
    /\ Len(results) >= 2
    /\ results[2].kind \in HeaderKinds

\* C30 as stated: a Modify action whose append list is not empty makes the
\* second submit return HeadersChanged, the entries added at the end, even
\* when they are already present in the header.
C30_AppendAlwaysChanges ==
    ModifyAppended =>
        /\ results[2].kind = "HeadersChanged"
        /\ Len(results[2].to) >= Len(header_rewrite.action.append)
        /\ SubSeq(results[2].to,
                  Len(results[2].to) - Len(header_rewrite.action.append) + 1,
                  Len(results[2].to)) = header_rewrite.action.append

\* C30, amended: a Modify action whose append list is not empty and whose
\* delete patterns match no entry of the header makes the second submit
\* return HeadersChanged even when every appended entry is already present:
\* the header holds its entries followed by the appended ones.
C30_AppendWithoutDeleteChanges ==
    (/\ ModifyAppended
     /\ Retained(ListBefore(results[2]), header_rewrite.action.delete_tags)
           = 1..Len(ListBefore(results[2]))) =>
        /\ results[2].kind = "HeadersChanged"
        /\ results[2].to = results[2].from \o header_rewrite.action.append

\* T=a appended to a header that holds T=a, nothing deleted: it holds it twice
C30_Witness ==
    /\ ModifyAppended
    /\ header_rewrite.action.delete_tags = <<>>
    /\ submitted[2] = PK_TAGS_GAIN
    /\ results[2].kind = "HeadersChanged"
    /\ Holds(results[2].from, header_rewrite.action.append[1])
    /\ Len(results[2].to) = Len(results[2].from) + 1

\* T deleted and T=a appended on a header that ends with T=a: unchanged
C30_DeletedAndAppendedAgain ==
    /\ ModifyAppended
    /\ submitted[2] = PK_TAGS_GAIN
    /\ results[2].kind = "HeadersUnchanged"

\* ------------------------------------- properties of the comment list, II

\* The positions of the entries of l whose key is k ignoring case
Matches(l, k) == {i \in 1..Len(l) : SameKey(l[i][1], k)}

\* What C31 says of the list a that replace(k, v) left of the list b, the
\* first match being at position f
ReplacedAt(b, a, k, v, f) ==
    LET Kept == (1..Len(b)) \ (Matches(b, k) \ {f}) IN
    /\ Len(a) = Cardinality(Kept)
    /\ \A j \in Kept :
          a[Cardinality({m \in Kept : m <= j})] = IF j = f THEN <<b[f][1], v>> ELSE b[j]

\* C31: replace(k, v) on a list that holds k ignoring ASCII case puts v at
\* the position of the first matching entry, keeps that entry's stored key,
\* removes every later matching entry and leaves the rest as it was; on a
\* list that does not hold k it does what push(k, v) does.
C31_ReplaceInPlace ==
    \A i \in 1..Len(calls) :
        calls[i].fn = "replace" =>
            IF Matches(calls[i].before, calls[i].key) # {}
            THEN /\ calls[i].result.ok
                 /\ ReplacedAt(calls[i].before, calls[i].after, calls[i].key, calls[i].value,
                               CHOOSE f \in Matches(calls[i].before, calls[i].key) :
                                   \A m \in Matches(calls[i].before, calls[i].key) : f <= m)
            ELSE /\ calls[i].result.ok = push(calls[i].before, calls[i].key, calls[i].value).ok
                 /\ calls[i].after = push(calls[i].before, calls[i].key, calls[i].value).list
                 /\ calls[i].result.ok =>
                       calls[i].after = Append(calls[i].before,
                                               <<calls[i].key, calls[i].value>>)
                 /\ ~calls[i].result.ok => calls[i].after = calls[i].before

\* replace("aB", "y") on T=x, Ab=x, aB=x leaves T=x, Ab=y
C31_Witness ==
    /\ calls # <<>>
    /\ calls[1].fn = "replace"
    /\ calls[1].key = KEY_aB
    /\ calls[1].before = <<(<<KEY_T, <<120>>>>), (<<KEY_Ab, <<120>>>>), (<<KEY_aB, <<120>>>>)>>
    /\ comment_list = <<(<<KEY_T, <<120>>>>), (<<KEY_Ab, <<121>>>>)>>

\* C32: remove_all(k) removes every entry whose key equals k ignoring ASCII
\* case and leaves the other entries, with their values, in their order;
\* called again, on the list it left, it changes nothing.
C32_RemoveAll ==
    \A i \in 1..Len(calls) :
        calls[i].fn = "remove_all" =>
            /\ Matches(calls[i].after, calls[i].key) = {}
            /\ calls[i].after = Others(calls[i].before, calls[i].key)
            /\ comment_list = calls[i].after
            /\ Matches(calls[i].before, calls[i].key) = {} => calls[i].after = calls[i].before
            /\ remove_all(calls[i].after, calls[i].key) = calls[i].after

\* remove_all("Ab") on Ab=x, T=y, aB=y leaves T=y
C32_Witness ==
    /\ calls # <<>>
    /\ calls[1].fn = "remove_all"
    /\ calls[1].key = KEY_Ab
    /\ calls[1].before = <<(<<KEY_Ab, <<120>>>>), (<<KEY_T, <<121>>>>), (<<KEY_aB, <<121>>>>)>>
    /\ comment_list = <<(<<KEY_T, <<121>>>>)>>

\* remove_all called on a list it has already cleared of the key
C32_CalledAgain ==
    /\ calls # <<>>
    /\ calls[1].fn = "remove_all"
    /\ calls[1].key = KEY_t
    /\ calls[1].before = <<(<<KEY_Ab, <<120>>>>)>>
    /\ comment_list = calls[1].before

\* ------------------------------------- properties of the delete patterns

\* The key a -d pattern names, as it was typed
PatternKey(pattern) ==
    IF IndexOf(pattern, 61) = 0 THEN pattern ELSE SubSeq(pattern, 1, IndexOf(pattern, 61) - 1)

\* The value a KEY=VALUE pattern names
PatternValue(pattern, escaped) ==
    IF escaped
    THEN unescape_str(SubSeq(pattern, IndexOf(pattern, 61) + 1, Len(pattern))).value
    ELSE SubSeq(pattern, IndexOf(pattern, 61) + 1, Len(pattern))

\* Whether the set of patterns deletes the entry e whose key is spelled as
\* theirs: some pattern of its key is bare, or one names its value
Deletes(patterns, escaped, e) ==
    \E pattern \in patterns :
        /\ PatternKey(pattern) = e[1]
        /\ IndexOf(pattern, 61) = 0 \/ PatternValue(pattern, escaped) = e[2]

\* The entries of the header before the rewrite the patterns delete
Deleted(r, patterns, escaped) ==
    {j \in 1..Len(ListBefore(r)) : Deletes(patterns, escaped, ListBefore(r)[j])}

\* opuscomment ran in append mode and its rewrite returned a header result
Appended ==
    /\ tool = "opuscomment"
    /\ main # "start"
    /\ ~clap_conflict(cli)
    /\ operation_mode(cli) = "Append"
    /\ task[CommentInput].rewrite_result # None
    /\ task[CommentInput].rewrite_result[1].kind \in HeaderKinds

\* C33: which entries the -d patterns delete depends on the set of patterns
\* only, not on their order: for one key, a bare KEY pattern among any
\* KEY=VALUE patterns deletes every value of the key, and KEY=VALUE patterns
\* alone delete exactly the values they name.
C33_PatternOrder ==
    Appended =>
        ListAfter(task[CommentInput].rewrite_result[1]) =
            SelectSeq(ListBefore(task[CommentInput].rewrite_result[1]),
                      LAMBDA e : ~Deletes({cli.delete[i] : i \in 1..Len(cli.delete)},
                                          cli.escapes, e))
            \o parse_new_comment_args(cli.tags, cli.escapes).list

\* -d T=x -d T on T=a, A=b, t=c: the bare pattern, given last, deletes T=a
C33_Witness ==
    /\ Appended
    /\ cli.delete = <<(<<84, 61, 120>>), KEY_T>>
    /\ cli.tags = <<>>
    /\ Returned(CommentInput, "HeadersChanged")
    /\ task[CommentInput].rewrite_result[1].from =
          <<(<<KEY_T, <<97>>>>), (<<KEY_A, <<98>>>>), (<<KEY_t, <<99>>>>)>>
    /\ task[CommentInput].rewrite_result[1].to = <<(<<KEY_A, <<98>>>>), (<<KEY_t, <<99>>>>)>>

\* -d T -d T=x, the bare pattern given first, deletes T=a as well
C33_BareFirst ==
    /\ Appended
    /\ cli.delete = <<KEY_T, (<<84, 61, 120>>)>>
    /\ cli.tags = <<>>
    /\ Returned(CommentInput, "HeadersChanged")
    /\ task[CommentInput].rewrite_result[1].to = <<(<<KEY_A, <<98>>>>), (<<KEY_t, <<99>>>>)>>

\* ------------------------------------------- properties of album mode

\* An analyzer given the packets one after the other
RECURSIVE MeasuredFrom(_, _)
MeasuredFrom(an, packets) ==
    IF packets = <<>> THEN an
    ELSE MeasuredFrom(Analyzer_submit(an, Head(packets)).an, Tail(packets))

\* The analyzer of a file that was analysed to its end
Measurement(file) == file_complete(MeasuredFrom(VolumeAnalyzer_new, file[1]))

\* The loudness measured for a file
TrackLoudness(file) == last_track_lufs(Measurement(file))[1]

\* C34: in album mode the album loudness is computed from the analyzers of
\* the files in the order the files were given, whatever order the workers
\* finish in, and the track loudness recorded for a path is the measurement
\* of that file: both are functions of the input files alone.
C34_AlbumByInputOrder ==
    (tool = "opusgain" /\ main # "start" /\ gain_album_mode(cli)) =>
        /\ \A i \in DOMAIN album.analyzers :
              /\ original[InputFiles[i]] # None
              /\ album.analyzers[i] = Measurement(original[InputFiles[i]])
        /\ \A p \in DOMAIN album.tracks : album.tracks[p] = TrackLoudness(original[p])
        /\ album.volume # None =>
              /\ album.volume[1].mean =
                    mean_lufs_across_multiple(
                        [i \in 1..Len(InputFiles) |-> Measurement(original[InputFiles[i]])])
              /\ album.volume[1].tracks = [p \in InputPaths |-> TrackLoudness(original[p])]

\* The album of a plain stream and one cut after its ID header, which
\* measure differently, was computed
C34_Witness ==
    /\ tool = "opusgain"
    /\ gain_album_mode(cli)
    /\ cli.num_threads = 2
    /\ original[InputFiles[1]] = F_PLAIN
    /\ original[InputFiles[2]] = F_TRUNCATED
    /\ album.volume # None
    /\ album.volume[1].tracks[InputFiles[1]] # album.volume[1].tracks[InputFiles[2]]

\* The second file's analysis finished while the first was still running
C34_SecondFinishedFirst ==
    /\ tool = "opusgain"
    /\ main = "album"
    /\ original[InputFiles[1]] = F_PLAIN
    /\ original[InputFiles[2]] = F_TRUNCATED
    /\ DOMAIN album.analyzers = {2}
    /\ pc[InputFiles[1]] = "analyze"

\* ------------------------------------ properties of the emission queue

\* The rewriter driven directly was given n packets and no submit failed
Submitted(n) ==
    /\ tool = "none"
    /\ stream = <<>>
    /\ Len(submitted) = n
    /\ NoError

\* C35: once all N >= 2 packets of a stream have been submitted and every
\* submit succeeded, all N packets have been written to the sink; for a
\* stream of two packets whose headers changed, both rewritten header
\* packets have been written when the last submit returns.
C35_AllPacketsWritten ==
    \A n \in 2..MaxPackets :
        Submitted(n) =>
            /\ Len(packet_writer) = n
            /\ packet_queue = <<>>

\* From the third packet on every packet submitted has been written
C35_WrittenFromThirdSubmit ==
    \A n \in 3..MaxPackets :
        Submitted(n) =>
            /\ Len(packet_writer) = n
            /\ packet_queue = <<>>

\* Two packets submitted, the headers changed: both wait in the queue and
\* the sink has received nothing
C35_HeadersLeftInQueue ==
    /\ Submitted(2)
    /\ results[2].kind = "HeadersChanged"
    /\ packet_writer = <<>>
    /\ Len(packet_queue) = 2

\* C36: in every reachable state of the rewriter, state AwaitingComments
\* means the header slot holds the first packet, AwaitingHeader and
\* Forwarding mean it is empty, also after a second submit that failed, so
\* that no later submit fails its "Missing header packet" expectation.
C36_HeaderSlot ==
    (tool = "none" /\ stream = <<>>) =>
        /\ state = "AwaitingComments" =>
              /\ submitted # <<>>
              /\ header_packet = Some(submitted[1])
        /\ state \in {"AwaitingHeader", "Forwarding"} => header_packet = None
        /\ \A i \in 1..Len(results) : results[i].kind # "Panic"

\* The slot is as C36 says as long as no submit has failed
C36_HeaderSlotWithoutError ==
    (tool = "none" /\ stream = <<>> /\ NoError) =>
        /\ state = "AwaitingComments" =>
              /\ submitted # <<>>
              /\ header_packet = Some(submitted[1])
        /\ state \in {"AwaitingHeader", "Forwarding"} => header_packet = None

\* The submit after a failed second submit panicked
C36_PanicAfterFailure ==
    /\ tool = "none"
    /\ stream = <<>>
    /\ Len(results) = 3
    /\ results[2].kind = "Err"
    /\ results[3].kind = "Panic"
    /\ state = "AwaitingComments"
    /\ header_packet = None

\* A task that has gone past the analysis towards the rewrite of its file
PastAnalysis(p) ==
    pc[p] \in {"open", "lock", "check", "create", "rewrite", "match",
               "unlock", "unlocked", "done"}

\* Nothing has been created, rewritten or committed in this run
Untouched ==
    /\ temp = {}
    /\ commits = <<>>
    /\ files = original
    /\ \A p \in InputPaths : ~PastAnalysis(p)

\* Every input file has been analysed from its first packet to its end
AllAnalysed ==
    /\ album.volume # None
    /\ \A p \in InputPaths :
          /\ Idx(p) \in DOMAIN album.analyzers
          /\ album.analyzers[Idx(p)] = Measurement(original[p])
          /\ p \in DOMAIN album.volume[1].tracks

\* C37: in album mode every input file is fully analysed before any output
\* file is created or any input rewritten, and when the analysis of a file
\* has failed, was interrupted or panicked, no file at all is rewritten or
\* committed.
C37_AlbumAnalysisFirst ==
    (tool = "opusgain" /\ gain_album_mode(cli)) =>
        /\ ~Untouched => AllAnalysed
        /\ main = "album" => Untouched
        /\ (album.volume = None /\ main \in {"err", "panic"}) => Untouched

\* One file analysed to its end, the analysis of the other interrupted, and
\* opusgain has returned the error
C37_Witness ==
    /\ tool = "opusgain"
    /\ gain_album_mode(cli)
    /\ main = "err"
    /\ album.volume = None
    /\ \E p, q \in InputPaths :
          /\ pc[p] = "analyzed"
          /\ Interrupted(q)
    /\ Untouched

\* A file is committed in album mode after every file was analysed
C37_CommittedAfterAnalysis ==
    /\ tool = "opusgain"
    /\ gain_album_mode(cli)
    /\ previous = None
    /\ \E i \in 1..Len(commits) : commits[i].ok
    /\ files # original
    /\ AllAnalysed

\* ------------------------------------- properties of a completed file

\* The call i is a file_complete made when the stream's packet source had
\* ended without error: every packet was read and none was refused
EndedWithoutError(i) ==
    /\ calls[i].fn = "file_complete"
    /\ calls[i].fed = Len(calls[i].packets)
    /\ IF calls[i].fed = 0 THEN TRUE ELSE calls[i - 1].ok

\* The call i added exactly one loudness, that of the stream it ended,
\* and last_track_lufs gives it
RecordedOne(i) ==
    /\ AnalyzerAfter(i).track_loudness =
           Append(calls[i].before.track_loudness,
                  gated_mean_to_lufs(FileWindows(calls[i])))
    /\ last_track_lufs(AnalyzerAfter(i)) =
           Some(gated_mean_to_lufs(FileWindows(calls[i])))

\* C38: whenever the packet source of a file ends without error,
\* file_complete records exactly one loudness value for that file and
\* last_track_lufs is present and is that file's, also for a file of no
\* packet and for a file of header packets only.
C38_OneLoudnessPerFile ==
    \A i \in 1..Len(calls) : EndedWithoutError(i) => RecordedOne(i)

\* The same for the files that gave at least one packet
C38_OneLoudnessPerFileWithPackets ==
    \A i \in 1..Len(calls) :
        (EndedWithoutError(i) /\ calls[i].fed > 0) => RecordedOne(i)

\* A file of no packet was completed first: no loudness is recorded and
\* last_track_lufs is absent
C38_NothingRecorded ==
    /\ Len(calls) = 1
    /\ EndedWithoutError(1)
    /\ calls[1].packets = S_EMPTY
    /\ analyzer.track_loudness = <<>>
    /\ last_track_lufs(analyzer) = None

\* A file of no packet completed after another: last_track_lufs is the
\* loudness of the file before
C38_LoudnessOfFileBefore ==
    /\ Len(calls) > 1
    /\ EndedWithoutError(Len(calls))
    /\ calls[Len(calls)].packets = S_EMPTY
    /\ Len(analyzer.track_loudness) = 1
    /\ last_track_lufs(analyzer) # None

\* opusgain panicked on "Last track volume unexpectedly missing"
C38_DriverPanicked ==
    /\ tool = "opusgain"
    /\ main = "panic"
    /\ \E p \in InputPaths :
          /\ pc[p] = "panicked"
          /\ original[p] = F_EMPTY

====
